---- MODULE Spec2Model ----
(***************************************************************************)
(* SprintSync frontend: the task mutation / query-cache flow, the Kanban   *)
(* drag-and-drop controller, the add-time handlers and the auth store.      *)
(* The backend is reachable only through the REST contract; its effect on   *)
(* tasks is modelled from the documented contract.                          *)
(***************************************************************************)
EXTENDS Integers, Sequences, FiniteSets, TLC

(* ------------------------------ bounds --------------------------------- *)
\* user operations per behaviour of the full task specification
MaxOps == 2
\* advance clicks per behaviour of the advance specification
MaxAdvance == 3
\* add-time submissions per behaviour of the add-time specification
MaxAddTime == 2
\* drags per behaviour of the board specification
MaxDrags == 2
\* task writes per behaviour of the admin specification
MaxAdminOps == 1
\* length of the text typed into the minutes field
MaxInputLen == 2
\* auth store calls per behaviour of the auth specification
MaxAuthOps == 3
\* writes to existing tasks per behaviour of the concurrent-writes specification
MaxRaceOps == 2
\* user operations in a run of the notification flows
MaxNotifyOps == 1
\* submissions of the task form in a run
MaxFormOps == 2
\* logins, logouts and history navigations in a run
MaxHistoryOps == 3
MaxRoleOps == 3
MaxUserOps == 3
MaxUserFormOps == 3
\* largest minute count a view is given
MaxMinutes == 125
\* largest number of tasks and of users a statistic is computed from
MaxStatTasks == 3
MaxStatUsers == 2

(* ------------------------- program constants --------------------------- *)
\* queryClient defaultOptions.queries.retry
Retry == 1

TaskIds == {"t1", "t2"}
Titles == {"A", "B"}
Tokens == {"tokA", "tokB"}
NoToken == "null"
RidSpace == 1..12

\* types/index.ts TaskStatus
TaskStatus == {"TODO", "IN_PROGRESS", "DONE"}

NoTask == [exists |-> FALSE, title |-> "", status |-> "TODO", total_minutes |-> 0]
NoTasks == [t \in TaskIds |-> NoTask]
UserIds == {"u1", "u2", "u3"}
\* an entry of the backend's user list; no entry
Account(name, admin) == [exists |-> TRUE, full_name |-> name, is_admin |-> admin]
NoAccount == [exists |-> FALSE, full_name |-> "", is_admin |-> FALSE]
NoUsers == [u \in UserIds |-> NoAccount]
\* the backend's user list holds the admin and one more user
OneUser ==
    [u \in UserIds |-> CASE u = "u1" -> Account("Ann", TRUE)
                          [] u = "u2" -> Account("Bob", FALSE)
                          [] OTHER -> NoAccount]
NoUser == [exists |-> FALSE, is_admin |-> FALSE]
AdminUser == [exists |-> TRUE, is_admin |-> TRUE]
PlainUser == [exists |-> TRUE, is_admin |-> FALSE]

(* ------------------------------ query keys ----------------------------- *)
KeyTasks == <<"tasks">>
KeyAdminTasks == <<"admin-tasks">>
KeyAdminAllTasks == <<"admin", "all-tasks">>
KeyUsers == <<"users">>
KeyAdminAllUsers == <<"admin", "all-users">>
QueryKeys == {KeyTasks, KeyAdminTasks, KeyAdminAllTasks, KeyUsers, KeyAdminAllUsers}
\* the keys whose cached value is a task collection
TaskCollectionKeys == {KeyTasks, KeyAdminTasks, KeyAdminAllTasks}
\* the keys whose cached value is the user list
UserCollectionKeys == {KeyUsers, KeyAdminAllUsers}

\* the apiClient method a query's queryFn calls
QueryFn(k) ==
    CASE k = KeyTasks -> "getTasks"
      [] k \in UserCollectionKeys -> "getAllUsers"
      [] OTHER -> "getAllTasks"

\* invalidateQueries({queryKey}) matches every query whose key starts with it
PartialMatchKey(filter, key) ==
    /\ Len(filter) <= Len(key)
    /\ SubSeq(key, 1, Len(filter)) = filter

Pages == {"dashboard", "kanban", "adminTasks", "adminAnalytics"}
AdminPages == {"adminTasks", "adminAnalytics"}
\* the sections of the admin panel: overview, users, tasks, analytics
AdminSections == {"adminOverview", "adminUsers", "adminTasks", "adminAnalytics"}
\* the queries each page's components mount
QueriesOf(p) ==
    CASE p = "dashboard" -> {KeyTasks}
      [] p = "kanban" -> {KeyTasks}
      [] p = "adminOverview" -> {KeyUsers, KeyAdminTasks}
      [] p = "adminUsers" -> {KeyUsers}
      [] p = "adminTasks" -> {KeyAdminTasks, KeyUsers}
      [] p = "adminAnalytics" -> {KeyAdminAllTasks, KeyAdminAllUsers}
      [] OTHER -> {}

(* ------------------------------ variables ------------------------------ *)
VARIABLES
    srv,            \* backend: TaskIds -> task
    qc,             \* query cache: QueryKeys -> query state
    net,            \* requests in flight (sent, or answered and not yet handled)
    page,           \* the page that is mounted
    obs,            \* mutation observers: the pending mutation of each
    toasts,         \* notifications emitted by the last step
    event,          \* the last handler that ran, with its inputs and the requests it issued
    ops,            \* number of user operations so far
    lsToken,        \* localStorage 'access_token'
    store,          \* auth store: user, token, isAuthenticated, isLoading
    session,        \* the token the latest login returned (NoToken after logout), and
                    \* whether a failed loadUser has removed it since
    flows,          \* auth store calls waiting for a response
    chain,          \* per task: the run of consecutive advance clicks
    form,           \* the task form: "closed", "-" (new task) or the task it edits
    dir,            \* backend: UserIds -> entry of the user list
    screen          \* the statistic a view has rendered last: the view and its text

NoScreen == [view |-> "none", text |-> ""]

vars == <<srv, qc, net, page, obs, toasts, event, ops, lsToken, store, session, flows, chain,
         form, dir, screen>>
authVars == <<lsToken, store, session, flows>>

(* ------------------------------ api client ----------------------------- *)
NoResp == [hasJson |-> FALSE, task |-> NoTask, tasks |-> NoTasks,
           token |-> NoToken, user |-> NoUser, users |-> NoUsers]
NoBody == [none |-> TRUE]
NoObserver == <<>>

\* getHeaders with the token sent under the Basic scheme
getHeadersBasic(token) == IF token # NoToken THEN <<"Basic", token>> ELSE <<>>

\* ApiClient.getHeaders: the Authorization header, from the token that
\* localStorage holds at the time the request is built
getHeaders(token) == IF token # NoToken THEN <<"Bearer", token>> ELSE <<>>

\* ApiClient.request: one fetch with getHeaders() merged into the options;
\* ls is localStorage 'access_token' at the time of the call
Request(ls, rid, kind, id, body, o) ==
    [rid |-> rid, kind |-> kind, id |-> id, body |-> body, auth |-> getHeaders(ls),
     obs |-> o, phase |-> "sent", resp |-> NoResp]

FreshRid(n) ==
    CHOOSE r \in RidSpace :
        /\ \A x \in n : x.rid # r
        /\ \A r2 \in RidSpace : r2 < r => \E x \in n : x.rid = r2

\* createTask: the payload is rebuilt field by field
createTaskBody(data) ==
    [title |-> data.title,
     description |-> IF data.description # "" THEN data.description ELSE "null",
     assigned_to |-> IF data.assigned_to # "" THEN data.assigned_to ELSE "null"]

\* updateTask: the payload is the data as given
updateTaskBody(data) == data

\* updateTaskStatus: { status }
updateTaskStatusBody(status) == [status |-> status]

\* addTimeToTask sending the value scaled to seconds
addTimeToTaskBodyScaled(minutes) == [minutes |-> minutes * 60]

\* addTimeToTask: { minutes }
addTimeToTaskBody(minutes) == [minutes |-> minutes]

MutationKinds == {"createTask", "updateTask", "updateTaskStatus", "addTimeToTask", "deleteTask"}
QueryKinds == {"getTasks", "getAllTasks", "getAllUsers"}
AuthKinds == {"login", "register", "getCurrentUser"}
\* user administration, profile and AI writes
AccountKinds == {"createUser", "updateUser", "deleteUser", "updateProfile",
                 "suggestTaskDescription"}

(* ------------------------------ query cache ---------------------------- *)
EmptyQuery == [hasData |-> FALSE, data |-> NoTasks, isInvalidated |-> FALSE,
               fetching |-> 0, failureCount |-> 0, isError |-> FALSE]

\* useUsers with the query enabled for everybody
UseUsersAlwaysEnabled(user) == TRUE

\* useUsers: enabled: user?.is_admin || false
UseUsersEnabled(user) == user.exists /\ user.is_admin

\* the queries among keys that are enabled for the user in the store
EnabledQueries(keys, user) == {k \in keys : k = KeyUsers => UseUsersEnabled(user)}

\* the queries that have an enabled observer: those of the page that is
\* shown and, while the task form is open, the form's useUsers
FormQueries == IF form # "closed" /\ page \in {"dashboard", "kanban"} THEN {KeyUsers} ELSE {}
IsActive(k) ==
    /\ store.isAuthenticated /\ ~store.isLoading
    /\ k \in EnabledQueries(QueriesOf(page) \cup FormQueries, store.user)

\* Query.fetch that always reuses a running fetch
FetchQueryKeepsRunning(w, k, cancelRefetch) ==
    LET q == w.qc[k] IN
    IF q.fetching # 0
    THEN w
    ELSE LET rid == FreshRid(w.net)
         IN [w EXCEPT !.net = w.net \cup {Request(w.ls, rid, QueryFn(k), "-", NoBody, NoObserver)},
                      !.qc[k] = [q EXCEPT !.fetching = rid, !.failureCount = 0]]

\* Query.fetch: a running fetch is reused, unless cancelRefetch is set and the
\* query already has data; then it is cancelled and a new one starts
FetchQuery(w, k, cancelRefetch) ==
    LET q == w.qc[k] IN
    IF q.fetching # 0 /\ ~(cancelRefetch /\ q.hasData)
    THEN w
    ELSE LET n1 == {x \in w.net : x.rid # q.fetching}
             rid == FreshRid(n1)
         IN [w EXCEPT !.net = n1 \cup {Request(w.ls, rid, QueryFn(k), "-", NoBody, NoObserver)},
                      !.qc[k] = [q EXCEPT !.fetching = rid, !.failureCount = 0]]

RECURSIVE FetchAll(_, _, _)
FetchAll(w, keys, cancelRefetch) ==
    IF keys = {} THEN w
    ELSE LET k == CHOOSE x \in keys : TRUE
         IN FetchAll(FetchQuery(w, k, cancelRefetch), keys \ {k}, cancelRefetch)

\* queryClient.invalidateQueries({ queryKey: filter }): every matching query is
\* marked invalidated, the active ones are refetched
InvalidateQueries(w, filter) ==
    LET hit == {k \in QueryKeys : PartialMatchKey(filter, k)}
        marked == [w EXCEPT !.qc = [k \in QueryKeys |->
                      IF k \in hit THEN [w.qc[k] EXCEPT !.isInvalidated = TRUE]
                      ELSE w.qc[k]]]
    IN FetchAll(marked, {k \in hit : IsActive(k)}, TRUE)

RECURSIVE InvalidateAll(_, _)
InvalidateAll(w, filters) ==
    IF filters = {} THEN w
    ELSE LET f == CHOOSE x \in filters : TRUE
         IN InvalidateAll(InvalidateQueries(w, f), filters \ {f})

\* a query observer mounts: fetch when there is no data or the data is stale
ShouldFetchOnMount(q) == ~q.hasData \/ q.isInvalidated

MountQueries(w, keys) ==
    FetchAll(w, {k \in keys : ShouldFetchOnMount(w.qc[k])}, FALSE)

World == [net |-> net, qc |-> qc, ls |-> lsToken]

(* ------------------------------ pure helpers --------------------------- *)
\* getNextStatus with the reopen step lost: DONE stays DONE
getNextStatusNoReopen(currentStatus) ==
    CASE currentStatus = "TODO" -> "IN_PROGRESS"
      [] currentStatus = "IN_PROGRESS" -> "DONE"
      [] OTHER -> "DONE"

\* TaskCard.getNextStatus
getNextStatus(currentStatus) ==
    CASE currentStatus = "TODO" -> "IN_PROGRESS"
      [] currentStatus = "IN_PROGRESS" -> "DONE"
      [] currentStatus = "DONE" -> "TODO"
      [] OTHER -> "IN_PROGRESS"

\* a JavaScript number that is an integer or NaN
NaN == [isNaN |-> TRUE, value |-> 0]
Num(n) == [isNaN |-> FALSE, value |-> n]
Digits == {"0", "5"}
\* the characters a number field lets the user type
Chars == Digits \cup {"-", "."}
DigitVal(c) == IF c = "5" THEN 5 ELSE 0

RECURSIVE StripLeft(_)
StripLeft(s) == IF s # <<>> /\ Head(s) = " " THEN StripLeft(Tail(s)) ELSE s

RECURSIVE DigitPrefix(_)
DigitPrefix(s) ==
    IF s # <<>> /\ Head(s) \in Digits THEN <<Head(s)>> \o DigitPrefix(Tail(s)) ELSE <<>>

RECURSIVE DecimalValue(_)
DecimalValue(d) ==
    IF d = <<>> THEN 0 ELSE 10 * DecimalValue(SubSeq(d, 1, Len(d) - 1)) + DigitVal(d[Len(d)])

\* JavaScript parseInt(string): leading white space is skipped, an optional
\* sign is read, then the longest prefix of decimal digits; NaN when there is none
parseInt(string) ==
    LET t == StripLeft(string)
        sign == IF t # <<>> /\ Head(t) = "-" THEN -1 ELSE 1
        u == IF t # <<>> /\ Head(t) \in {"+", "-"} THEN Tail(t) ELSE t
        d == DigitPrefix(u)
    IN IF d = <<>> THEN NaN ELSE Num(sign * DecimalValue(d))

\* minutes > 0 in JavaScript: false for NaN
GreaterThanZero(minutes) == ~minutes.isNaN /\ minutes.value > 0
\* minutes <= 0 in JavaScript: false for NaN
AtMostZero(minutes) == ~minutes.isNaN /\ minutes.value <= 0

AllDigits(s) == s # <<>> /\ \A i \in 1..Len(s) : s[i] \in Digits

\* <input type="number">: the value the element reports is the empty string
\* or a valid floating-point number
IsFloatMantissa(m) ==
    \/ AllDigits(m)
    \/ \E i \in 1..Len(m) :
          /\ m[i] = "."
          /\ i = 1 \/ AllDigits(SubSeq(m, 1, i - 1))
          /\ AllDigits(SubSeq(m, i + 1, Len(m)))

IsUnsignedFloat(u) ==
    \/ IsFloatMantissa(u)
    \/ \E i \in 1..Len(u) :
          /\ u[i] = "e"
          /\ IsFloatMantissa(SubSeq(u, 1, i - 1))
          /\ LET x == SubSeq(u, i + 1, Len(u))
             IN AllDigits(x) \/ (x # <<>> /\ Head(x) = "-" /\ AllDigits(Tail(x)))

IsValidFloat(s) ==
    IF s # <<>> /\ Head(s) = "-" THEN IsUnsignedFloat(Tail(s)) ELSE IsUnsignedFloat(s)

RECURSIVE StringsOfLen(_)
StringsOfLen(n) ==
    IF n = 0 THEN {<<>>}
    ELSE {<<c>> \o s : c \in Chars, s \in StringsOfLen(n - 1)}

\* what the user can type into the field
TypedTexts == UNION {StringsOfLen(n) : n \in 0..MaxInputLen}

\* <input type="number">: e.target.value is the typed text when it is a valid
\* floating-point number and the empty string otherwise
NumberInputValue(typed) == IF IsValidFloat(typed) THEN typed ELSE <<>>

\* the values typed in the full task specification
FewInputValues == {<<"5">>, <<"-", "5">>}

(* ------------------------------ UI handlers ---------------------------- *)
FormObservers == {<<"formCreate">>, <<"formUpdate">>}
ObserverIds == {<<"kanbanStatus">>}
               \cup FormObservers
               \cup {<<"cardStatus", t>> : t \in TaskIds}
               \cup {<<"cardAddTime", t>> : t \in TaskIds}
NoObservers == [o \in ObserverIds |-> 0]

\* the task list a page renders: the cached list, once loaded and not in error
ListShown == qc[KeyTasks].hasData /\ ~qc[KeyTasks].isError
CachedTask(t) == qc[KeyTasks].data[t]
Rendered(t) == ListShown /\ CachedTask(t).exists

NoEvent == [op |-> "-", task |-> "-", arg |-> "-", cached |-> NoTask, issued |-> {}]

Event(op, t, arg, issued) ==
    [op |-> op, task |-> t, arg |-> arg,
     cached |-> IF t \in TaskIds THEN CachedTask(t) ELSE NoTask,
     issued |-> issued]

Toast(type, msg) == [type |-> type, msg |-> msg]

\* useMutation(...).mutate: one request through the api client; the observer
\* follows its latest mutation
Mutate(op, t, arg, kind, id, body, o) ==
    LET r == Request(lsToken, FreshRid(net), kind, id, body, o) IN
    /\ net' = net \cup {r}
    /\ obs' = IF o \in ObserverIds THEN [obs EXCEPT ![o] = r.rid] ELSE obs
    /\ event' = Event(op, t, arg, {r})
    /\ ops' = ops + 1

\* a handler that returns without calling mutate
NoRequest(op, t, arg) ==
    /\ event' = Event(op, t, arg, {})
    /\ ops' = ops + 1
    /\ UNCHANGED <<net, obs>>

\* Navigation: the page's components unmount, the new page's queries mount
Navigate(p) ==
    /\ p # page
    /\ page \in Pages \cup AdminSections
    /\ p \in AdminPages => store.user.is_admin
    /\ page' = p
    /\ LET w == MountQueries(World, EnabledQueries(QueriesOf(p), store.user))
       IN /\ net' = w.net
          /\ qc' = w.qc
          /\ event' = NoEvent
    /\ obs' = NoObservers
    /\ form' = "closed"
    /\ toasts' = {}
    /\ UNCHANGED <<srv, ops, chain>>
    /\ UNCHANGED <<authVars, dir, screen>>

\* TaskCard.handleStatusChange (the button is disabled while updateStatus.isPending)
AdvanceTarget(task) == getNextStatus(task.status)

\* the run of advance clicks on a card, each made on the status the previous
\* one asked for
NextChain(c, from, to) ==
    IF c.n > 0 /\ c.last = from
    THEN [orig |-> c.orig, from |-> from, last |-> to, n |-> c.n + 1]
    ELSE [orig |-> from, from |-> from, last |-> to, n |-> 1]

HandleStatusChange(t) ==
    /\ page = "dashboard"
    /\ Rendered(t)
    /\ obs[<<"cardStatus", t>>] = 0
    /\ LET nextStatus == AdvanceTarget(CachedTask(t)) IN
       /\ Mutate("handleStatusChange", t, "-", "updateTaskStatus", t,
                 updateTaskStatusBody(nextStatus), <<"cardStatus", t>>)
       /\ chain' = [chain EXCEPT ![t] = NextChain(chain[t], CachedTask(t).status, nextStatus)]
    /\ toasts' = {}
    /\ UNCHANGED <<srv, qc, page>>
    /\ UNCHANGED <<authVars, form, dir, screen>>

\* Kanban.handleDragEnd: over is the droppable under the released card
NoOver == "null"
\* the droppables of the board: each column (useDroppable, id = status) and
\* each rendered card (useSortable, id = task.id)
Droppables == TaskStatus \cup {t \in TaskIds : Rendered(t)}

\* the drop read as an advance of the column's status
DropStatusAdvanced(over) == getNextStatus(over)

\* the status the handler reads from the drop target
DropStatus(over) == over

\* whether the handler calls mutate
DragEndMutates(task, over) ==
    /\ over # NoOver
    /\ task.exists
    /\ task.status # DropStatus(over)

HandleDragEnd(t, over) ==
    /\ page = "kanban"
    /\ Rendered(t)
    /\ over \in Droppables \cup {NoOver}
    /\ IF DragEndMutates(CachedTask(t), over)
       THEN Mutate("handleDragEnd", t, over, "updateTaskStatus", t,
                   updateTaskStatusBody(DropStatus(over)), <<"kanbanStatus">>)
       ELSE NoRequest("handleDragEnd", t, over)
    /\ toasts' = {}
    /\ UNCHANGED <<srv, qc, page, chain>>
    /\ UNCHANGED <<authVars, form, dir, screen>>

\* the Add button of the two cards
Views == {"TaskCard", "KanbanTaskCard"}
ViewPage(view) == IF view = "TaskCard" THEN "dashboard" ELSE "kanban"

AddButtonDisabled(view, t, input) ==
    IF view = "TaskCard"
    THEN input = <<>> \/ obs[<<"cardAddTime", t>>] # 0
    ELSE input = <<>> \/ AtMostZero(parseInt(input))

\* handleAddTime testing minutes >= 0
AddTimeAcceptsZero(minutes) == ~minutes.isNaN /\ minutes.value >= 0

\* handleAddTime: if (minutes > 0) mutate
AddTimeAccepts(minutes) == GreaterThanZero(minutes)

HandleAddTime(view, t, typed) ==
    /\ page = ViewPage(view)
    /\ Rendered(t)
    /\ LET input == NumberInputValue(typed)
           minutes == parseInt(input)
       IN
       IF ~AddButtonDisabled(view, t, input) /\ AddTimeAccepts(minutes)
       THEN /\ Mutate("handleAddTime", t, typed, "addTimeToTask", t,
                      addTimeToTaskBody(minutes.value),
                      IF view = "TaskCard" THEN <<"cardAddTime", t>> ELSE NoObserver)
            /\ toasts' = IF view = "KanbanTaskCard"
                         THEN {Toast("success", "Added minutes to task")}
                         ELSE {}
       ELSE /\ NoRequest("handleAddTime", t, typed)
            /\ toasts' = {}
    /\ UNCHANGED <<srv, qc, page, chain>>
    /\ UNCHANGED <<authVars, form, dir, screen>>

\* TaskForm: handleSubmit runs onSubmit only when taskSchema accepts the data
TitleMax == 200
DescriptionMax == 20000
\* texts of the lengths at and just past the limits
Title200 == "T*200"
Title201 == "T*201"
Description20000 == "d*20000"
Description20001 == "d*20001"
\* string.length
Length(s) ==
    CASE s = "" -> 0
      [] s = Title200 -> TitleMax
      [] s = Title201 -> TitleMax + 1
      [] s = Description20000 -> DescriptionMax
      [] s = Description20001 -> DescriptionMax + 1
      [] OTHER -> 1
FormTitles == Titles \cup {""}
LongTitles == {Title200, Title201}
FormDescriptions == {"", Description20000, Description20001}
FormDataOf(title, description) ==
    [title |-> title, description |-> description, assigned_to |-> ""]
FormData(title) == FormDataOf(title, "")

\* a schema that only requires a title
taskSchemaTitleRequired(data) == data.title # ""

\* title: min(1).max(200); description: max(20000), optional
taskSchemaAccepts(data) ==
    /\ Length(data.title) >= 1
    /\ Length(data.title) <= TitleMax
    /\ Length(data.description) <= DescriptionMax

\* the update payload built from a whole task, total_minutes included
UpdateTaskDataWithTotal(data) ==
    [title |-> data.title, description |-> data.description,
     assigned_to |-> data.assigned_to, total_minutes |-> 0]

\* onSubmit with a task: the update payload
UpdateTaskData(data) == data

\* the pages' New Task buttons and handleEditTask; target is a task id
\* (edit) or "-" (create)
OpenForm(target) ==
    /\ page \in {"dashboard", "kanban"}
    /\ ListShown
    /\ form = "closed"
    /\ target \in TaskIds => Rendered(target)
    /\ form' = target
    /\ LET w == MountQueries(World, EnabledQueries({KeyUsers}, store.user))
       IN net' = w.net /\ qc' = w.qc
    /\ event' = NoEvent
    /\ toasts' = {}
    /\ UNCHANGED <<srv, page, obs, ops, chain>>
    /\ UNCHANGED <<authVars, dir, screen>>

\* handleCloseForm (Cancel, the X button, a click on the backdrop): the form
\* unmounts
CloseForm ==
    /\ form # "closed"
    /\ form' = "closed"
    /\ obs' = [o \in ObserverIds |-> IF o \in FormObservers THEN 0 ELSE obs[o]]
    /\ event' = NoEvent
    /\ toasts' = {}
    /\ UNCHANGED <<srv, qc, net, page, ops, chain>>
    /\ UNCHANGED <<authVars, dir, screen>>

\* the form is submitted for target with the data typed into it; a form
\* that is not open for target is opened first. The submit button is
\* disabled while a mutation of the form is pending.
SubmitForm(target, data) ==
    /\ page \in {"dashboard", "kanban"}
    /\ ListShown
    /\ target \in TaskIds => Rendered(target)
    /\ form = target => \A o \in FormObservers : obs[o] = 0
    /\ form' = target
    /\ LET mounted == IF form = target THEN obs
                      ELSE [o \in ObserverIds |-> IF o \in FormObservers THEN 0 ELSE obs[o]]
           w == IF form = target THEN World
                ELSE MountQueries(World, EnabledQueries({KeyUsers}, store.user))
           r == IF target \in TaskIds
                THEN Request(lsToken, FreshRid(w.net), "updateTask", target,
                             updateTaskBody(UpdateTaskData(data)), <<"formUpdate">>)
                ELSE Request(lsToken, FreshRid(w.net), "createTask", "-",
                             createTaskBody(data), <<"formCreate">>)
       IN /\ qc' = w.qc
          /\ IF ~taskSchemaAccepts(data)
             THEN /\ event' = Event("onSubmit", target, data, {})
                  /\ obs' = mounted
                  /\ net' = w.net
             ELSE /\ event' = Event("onSubmit", target, data, {r})
                  /\ obs' = [mounted EXCEPT ![r.obs] = r.rid]
                  /\ net' = w.net \cup {r}
    /\ ops' = ops + 1
    /\ toasts' = {}
    /\ UNCHANGED <<srv, page, chain>>
    /\ UNCHANGED <<authVars, dir, screen>>

SubmitTaskForm(target, title) == SubmitForm(target, FormData(title))

\* handleConfirmDelete of either card
HandleConfirmDelete(t) ==
    /\ page \in {"dashboard", "kanban"}
    /\ Rendered(t)
    /\ Mutate("handleConfirmDelete", t, "-", "deleteTask", t, NoBody, NoObserver)
    /\ toasts' = {}
    /\ UNCHANGED <<srv, qc, page, chain>>
    /\ UNCHANGED <<authVars, form, dir, screen>>

(* ------------------------------ backend -------------------------------- *)
\* The REST contract of the task service: what each request does to the
\* stored tasks and what it answers.
ServerAccepts(r) ==
    CASE r.kind = "createTask" -> \E t \in TaskIds : ~srv[t].exists
      [] r.kind = "updateTask" -> srv[r.id].exists
      [] r.kind = "updateTaskStatus" -> srv[r.id].exists /\ r.body.status \in TaskStatus
      [] r.kind = "addTimeToTask" -> srv[r.id].exists /\ r.body.minutes > 0
      [] r.kind = "deleteTask" -> srv[r.id].exists
      [] OTHER -> TRUE

NewTaskId == CHOOSE t \in TaskIds : ~srv[t].exists

ServerUpdated(task, body) ==
    [exists |-> TRUE,
     title |-> IF "title" \in DOMAIN body THEN body.title ELSE task.title,
     status |-> IF "status" \in DOMAIN body THEN body.status ELSE task.status,
     total_minutes |-> IF "total_minutes" \in DOMAIN body THEN body.total_minutes
                       ELSE task.total_minutes]

\* the id of the task a request writes, and the task after the write
ServerTarget(r) == IF r.kind = "createTask" THEN NewTaskId ELSE r.id
ServerWrites(r) ==
    CASE r.kind = "createTask" ->
            [exists |-> TRUE, title |-> r.body.title, status |-> "TODO", total_minutes |-> 0]
      [] r.kind = "updateTask" -> ServerUpdated(srv[r.id], r.body)
      [] r.kind = "updateTaskStatus" -> [srv[r.id] EXCEPT !.status = r.body.status]
      [] r.kind = "addTimeToTask" ->
            [srv[r.id] EXCEPT !.total_minutes = srv[r.id].total_minutes + r.body.minutes]
      [] r.kind = "deleteTask" -> NoTask
      [] OTHER -> NoTask

\* the server handles a request and answers 2xx
ServerOk(r) ==
    /\ r \in net /\ r.phase = "sent"
    /\ r.kind \in MutationKinds \cup QueryKinds
    /\ ServerAccepts(r)
    /\ IF r.kind \in MutationKinds
       THEN /\ srv' = [srv EXCEPT ![ServerTarget(r)] = ServerWrites(r)]
            /\ net' = (net \ {r}) \cup
                 {[r EXCEPT !.phase = "ok",
                            !.resp = [NoResp EXCEPT !.hasJson = (r.kind # "deleteTask"),
                                                    !.task = ServerWrites(r)]]}
       ELSE /\ srv' = srv
            /\ net' = (net \ {r}) \cup
                 {[r EXCEPT !.phase = "ok",
                            !.resp = [NoResp EXCEPT !.hasJson = TRUE, !.tasks = srv,
                                                    !.users = dir]]}
    /\ event' = NoEvent
    /\ toasts' = {}
    /\ UNCHANGED <<qc, page, obs, ops, chain>>
    /\ UNCHANGED <<authVars, form, dir, screen>>

\* the request fails: a non-2xx answer or a transport error, nothing is written
ServerFail(r) ==
    /\ r \in net /\ r.phase = "sent"
    /\ r.kind \in MutationKinds \cup QueryKinds \cup AuthKinds \cup AccountKinds
    /\ net' = (net \ {r}) \cup {[r EXCEPT !.phase = "fail"]}
    /\ event' = NoEvent
    /\ toasts' = {}
    /\ UNCHANGED <<srv, qc, page, obs, ops, chain>>
    /\ UNCHANGED <<authVars, form, dir, screen>>

(* ------------------------- responses at the client --------------------- *)
\* ApiClient.request resolves when the response is ok and its body parses as
\* JSON (return await response.json()); it rejects otherwise
Resolves(r) == r.phase = "ok" /\ r.resp.hasJson

\* mutation hooks whose onSuccess invalidates nothing
OnSuccessInvalidatesNothing(kind) == {}

\* the query keys each mutation hook invalidates in onSuccess
OnSuccessInvalidates(kind) == {KeyTasks}

\* the hooks' onSuccess / onError notifications
StatusMsg(status) ==
    CASE status = "TODO" -> "Moved to Todo"
      [] status = "IN_PROGRESS" -> "Started!"
      [] status = "DONE" -> "Done!"
      [] OTHER -> "Task updated"

HookSuccessToast(r) ==
    CASE r.kind = "createTask" -> Toast("success", "Task created!")
      [] r.kind = "updateTask" -> Toast("success", "Task updated!")
      [] r.kind = "updateTaskStatus" -> Toast("success", StatusMsg(r.resp.task.status))
      [] r.kind = "addTimeToTask" -> Toast("success", "+min logged")
      [] OTHER -> Toast("success", "Deleted")

\* hooks whose onError only logs
HookErrorToastLogged(r) == Toast("log", "console.error")

HookErrorToast(r) ==
    CASE r.kind = "createTask" -> Toast("error", "Failed to create task")
      [] r.kind = "updateTask" -> Toast("error", "Failed to update task")
      [] r.kind = "updateTaskStatus" -> Toast("error", "Failed to update status")
      [] r.kind = "addTimeToTask" -> Toast("error", "Failed to add time")
      [] OTHER -> Toast("error", "Delete failed")

\* the callbacks passed to mutate() run for the observer's latest mutation
\* while the observer is mounted
CallSiteCallbacks(r) == r.obs = <<"kanbanStatus">> /\ obs[r.obs] = r.rid
\* TaskForm passes onSuccess to mutate(): onSuccess?.() and onClose()
FormCallbacks(r) == r.obs \in FormObservers /\ obs[r.obs] = r.rid
CallSiteToasts(r, resolved) ==
    IF ~CallSiteCallbacks(r) THEN {}
    ELSE IF resolved THEN {Toast("success", "Task moved")}
    ELSE {Toast("error", "Failed to update task status")}

\* an onError that leaves an optimistic patch of the requested status in the cache
OnErrorCacheKeepsPatch(w, r) ==
    IF r.kind = "updateTaskStatus"
    THEN [w EXCEPT !.qc[KeyTasks].data[r.id].status = r.body.status]
    ELSE w

\* what a mutation's onError does to the query cache
OnErrorCache(w, r) == w

\* an onSuccess that writes the returned task into the cached list before
\* it invalidates
OnSuccessCachePatches(w, r) ==
    InvalidateAll(IF r.kind \in {"updateTask", "updateTaskStatus", "addTimeToTask"}
                  THEN [w EXCEPT !.qc[KeyTasks].data[r.id] = r.resp.task]
                  ELSE w,
                  OnSuccessInvalidates(r.kind))

\* what a mutation's onSuccess does to the query cache: invalidateQueries
OnSuccessCache(w, r) == InvalidateAll(w, OnSuccessInvalidates(r.kind))

\* a mutation settles: onSuccess / onError of the hook, then of the call site
MutationSettles(r) ==
    /\ r \in net /\ r.phase # "sent"
    /\ r.kind \in MutationKinds
    /\ LET rest == [World EXCEPT !.net = net \ {r}]
           w == IF Resolves(r)
                THEN OnSuccessCache(rest, r)
                ELSE OnErrorCache(rest, r)
       IN /\ net' = w.net
          /\ qc' = w.qc
          /\ event' = NoEvent
    /\ toasts' = {IF Resolves(r) THEN HookSuccessToast(r) ELSE HookErrorToast(r)}
                 \cup CallSiteToasts(r, Resolves(r))
    /\ obs' = IF r.obs \in ObserverIds /\ obs[r.obs] = r.rid
              THEN [obs EXCEPT ![r.obs] = 0] ELSE obs
    /\ form' = IF FormCallbacks(r) /\ Resolves(r) THEN "closed" ELSE form
    /\ UNCHANGED <<srv, page, ops, chain>>
    /\ UNCHANGED <<authVars, dir, screen>>

KeyOfFetch(r) == CHOOSE k \in QueryKeys : qc[k].fetching = r.rid

\* a fetch settles: the data is installed, or the fetch is retried up to
\* Retry times while the query has an observer (the retry is cancelled when
\* the last observer unmounts) and then the query enters its error state
QuerySettles(r) ==
    /\ r \in net /\ r.phase # "sent"
    /\ r.kind \in QueryKinds
    /\ \E k \in QueryKeys : qc[k].fetching = r.rid
    /\ LET k == KeyOfFetch(r)
           q == qc[k]
       IN IF Resolves(r)
          THEN /\ qc' = [qc EXCEPT ![k] = [hasData |-> TRUE,
                                           data |-> IF r.kind = "getAllUsers"
                                                    THEN r.resp.users ELSE r.resp.tasks,
                                           isInvalidated |-> FALSE, fetching |-> 0,
                                           failureCount |-> 0, isError |-> FALSE]]
               /\ net' = net \ {r}
          ELSE IF q.failureCount < Retry /\ IsActive(k)
          THEN /\ qc' = [qc EXCEPT ![k] = [q EXCEPT !.failureCount = q.failureCount + 1]]
               /\ net' = (net \ {r}) \cup {[r EXCEPT !.phase = "sent", !.auth = getHeaders(lsToken)]}
          ELSE /\ qc' = [qc EXCEPT ![k] = [q EXCEPT !.fetching = 0, !.isError = TRUE,
                                                     !.failureCount = q.failureCount + 1]]
               /\ net' = net \ {r}
    /\ event' = NoEvent
    /\ toasts' = {}
    /\ UNCHANGED <<srv, page, obs, ops, chain>>
    /\ UNCHANGED <<authVars, form, dir, screen>>

(* ------------------------------ task flow ------------------------------ *)
NewTask(title, status) ==
    [exists |-> TRUE, title |-> title, status |-> status, total_minutes |-> 0]

LoggedIn(u, tok) == [user |-> u, token |-> tok, isAuthenticated |-> TRUE, isLoading |-> FALSE]
NoChain == [orig |-> "TODO", from |-> "TODO", last |-> "TODO", n |-> 0]

\* the user u, logged in with token tok, has opened page p while the backend
\* holds the tasks s
InitAs(u, tok, p, s) ==
    /\ lsToken = tok
    /\ store = LoggedIn(u, tok)
    /\ session = [token |-> tok, removed |-> FALSE]
    /\ flows = {}
    /\ srv = s
    /\ page = p
    /\ LET w == MountQueries([net |-> {}, qc |-> [k \in QueryKeys |-> EmptyQuery], ls |-> tok],
                             EnabledQueries(QueriesOf(p), u))
       IN net = w.net /\ qc = w.qc
    /\ obs = NoObservers
    /\ toasts = {}
    /\ event = NoEvent
    /\ ops = 0
    /\ chain = [t \in TaskIds |-> NoChain]
    /\ form = "closed"
    /\ dir = OneUser
    /\ screen = NoScreen

\* a logged-in user has opened page p: an admin for the sections of the
\* admin panel, which are closed to everybody else, an ordinary user for the
\* other pages
InitAt(p, s) ==
    IF p \in AdminSections THEN InitAs(AdminUser, "tokA", p, s)
    ELSE InitAs(PlainUser, "tokB", p, s)

\* the backend holds one task
OneTask == [t \in TaskIds |-> IF t = "t1" THEN NewTask("A", "TODO") ELSE NoTask]

Init == \E p \in {"dashboard", "kanban"} : InitAt(p, OneTask)

Network ==
    \E r \in net :
        \/ ServerOk(r)
        \/ ServerFail(r)
        \/ MutationSettles(r)
        \/ QuerySettles(r)

Next ==
    \/ ops < MaxOps /\ \E t \in TaskIds : HandleStatusChange(t)
    \/ ops < MaxOps /\ \E t \in TaskIds, over \in TaskStatus \cup TaskIds \cup {NoOver} :
                          HandleDragEnd(t, over)
    \/ ops < MaxOps /\ \E v \in Views, t \in TaskIds, i \in FewInputValues : HandleAddTime(v, t, i)
    \/ ops < MaxOps /\ \E x \in TaskIds \cup {"-"}, title \in Titles : SubmitTaskForm(x, title)
    \/ ops < MaxOps /\ \E t \in TaskIds : HandleConfirmDelete(t)
    \/ Network

Spec == Init /\ [][Next]_vars

(* ------------------------------ the board ------------------------------ *)
\* the Kanban board is open on two tasks, the first in any column
TwoTasks(st) ==
    [t \in TaskIds |-> IF t = "t1" THEN NewTask("A", st) ELSE NewTask("B", "TODO")]

InitBoard == \E st \in TaskStatus : InitAt("kanban", TwoTasks(st))

NextBoard ==
    \/ ops < MaxDrags /\ \E t \in TaskIds, over \in TaskStatus \cup TaskIds \cup {NoOver} :
                            HandleDragEnd(t, over)
    \/ Network

SpecBoard == InitBoard /\ [][NextBoard]_vars

(* ------------------------------ advancing ------------------------------ *)
InitAdvance ==
    \E st \in TaskStatus :
        InitAt("dashboard", [t \in TaskIds |-> IF t = "t1" THEN NewTask("A", st) ELSE NoTask])

NextAdvance ==
    \/ ops < MaxAdvance /\ \E t \in TaskIds : HandleStatusChange(t)
    \/ Network

SpecAdvance == InitAdvance /\ [][NextAdvance]_vars

\* every request is answered 2xx
Reliable ==
    \E r \in net : ServerOk(r) \/ MutationSettles(r) \/ QuerySettles(r)

\* advance clicks of a single client while no request fails
NextAdvanceReliable ==
    \/ ops < MaxAdvance /\ \E t \in TaskIds : HandleStatusChange(t)
    \/ Reliable

SpecAdvanceReliable == InitAdvance /\ [][NextAdvanceReliable]_vars

(* ------------------------------ adding time ---------------------------- *)
NextAddTime ==
    \/ ops < MaxAddTime /\ \E v \in Views, t \in TaskIds, i \in TypedTexts :
                              HandleAddTime(v, t, i)
    \/ Reliable

SpecAddTime == Init /\ [][NextAddTime]_vars

(* ------------------------------ admin pages ---------------------------- *)
NextAdmin ==
    \/ \E p \in Pages \ {"kanban"} : Navigate(p)
    \/ ops < MaxAdminOps /\ \E t \in TaskIds : HandleStatusChange(t)
    \/ ops < MaxAdminOps /\ \E title \in Titles : SubmitTaskForm("-", title)
    \/ Reliable

SpecAdmin == InitAs(AdminUser, "tokA", "dashboard", OneTask) /\ [][NextAdmin]_vars

(* --------------------------- concurrent writes ------------------------- *)
\* writes to existing tasks: status changes, moves, edits and time logging,
\* any of them started while an earlier one is still in flight
NextRace ==
    \/ ops < MaxRaceOps /\ \E t \in TaskIds : HandleStatusChange(t)
    \/ ops < MaxRaceOps /\ \E t \in TaskIds, over \in TaskStatus : HandleDragEnd(t, over)
    \/ ops < MaxRaceOps /\ \E v \in Views, t \in TaskIds, i \in FewInputValues : HandleAddTime(v, t, i)
    \/ ops < MaxRaceOps /\ \E t \in TaskIds, title \in Titles : SubmitTaskForm(t, title)
    \/ Network

SpecRace == Init /\ [][NextRace]_vars

(* ------------------------------ auth store ----------------------------- *)
PublicPages == {"login", "register"}
\* the user the backend knows behind a token
UserOf(tok) == IF tok = "tokA" THEN AdminUser ELSE PlainUser
\* the store as created: token read from localStorage, nobody authenticated
InitialStore(ls) == [user |-> NoUser, token |-> ls, isAuthenticated |-> FALSE, isLoading |-> FALSE]
\* the store after logout or a failed loadUser
ClearedStore == [user |-> NoUser, token |-> NoToken, isAuthenticated |-> FALSE, isLoading |-> FALSE]
NoSession == [token |-> NoToken, removed |-> FALSE]
\* a store function suspended at an await: the request it waits for, the token
\* it holds in a local, and localStorage 'access_token' as it was when the
\* function was called
Flow(fn, rid, token) == [fn |-> fn, rid |-> rid, token |-> token, before |-> NoToken]
CalledWith(w, f, ls) ==
    [w EXCEPT !.flows = (@ \ {Flow(f.fn, f.rid, f.token)}) \cup {[f EXCEPT !.before = ls]}]

AuthWorld ==
    [net |-> net, qc |-> qc, ls |-> lsToken, store |-> store, page |-> page, flows |-> flows]

\* apiClient.login: a bare fetch of POST /auth/login, built without getHeaders
apiLogin(w, fn) ==
    LET rid == FreshRid(w.net) IN
    [w EXCEPT !.net = @ \cup {[rid |-> rid, kind |-> "login", id |-> "-", body |-> NoBody,
                               auth |-> <<>>, obs |-> NoObserver, phase |-> "sent",
                               resp |-> NoResp]},
              !.flows = @ \cup {[Flow(fn, rid, NoToken) EXCEPT !.before = w.ls]}]

\* apiClient.register / apiClient.getCurrentUser: through ApiClient.request
apiRequest(w, kind, fn, token) ==
    LET rid == FreshRid(w.net) IN
    [w EXCEPT !.net = @ \cup {Request(w.ls, rid, kind, "-", NoBody, NoObserver)},
              !.flows = @ \cup {Flow(fn, rid, token)}]

\* authStore.loadUser up to its await
loadUser(w) ==
    IF w.ls = NoToken
    THEN [w EXCEPT !.store.isAuthenticated = FALSE, !.store.isLoading = FALSE]
    ELSE apiRequest([w EXCEPT !.store.isLoading = TRUE], "getCurrentUser", "loadUser", w.ls)

\* ProtectedRoute mounts: an authenticated store renders the children, whose
\* queries mount, an unauthenticated one renders the redirect to /login;
\* then the effect calls loadUser
ProtectedRoute(w) ==
    LET l == IF w.store.isAuthenticated
             THEN loadUser(MountQueries(w, EnabledQueries(QueriesOf(w.page), w.store.user)))
             ELSE loadUser(w)
    IN IF ~l.store.isLoading /\ ~l.store.isAuthenticated
       THEN [l EXCEPT !.page = "login"]
       ELSE IF ~w.store.isAuthenticated THEN [l EXCEPT !.page = "login"]
       ELSE l

\* a PublicRoute that shows its form to an authenticated user
RenderPublicAlways(w) ==
    IF w.store.isLoading THEN w
    ELSE IF w.page \in PublicPages THEN w
    ELSE IF w.store.isAuthenticated THEN MountQueries(w, EnabledQueries(QueriesOf(w.page), w.store.user))
    ELSE [w EXCEPT !.page = "login"]

\* the routes render again after the store has changed
Render(w) ==
    IF w.store.isLoading THEN w
    ELSE IF w.page \in PublicPages
    THEN IF w.store.isAuthenticated THEN ProtectedRoute([w EXCEPT !.page = "dashboard"]) ELSE w
    ELSE IF w.store.isAuthenticated THEN MountQueries(w, EnabledQueries(QueriesOf(w.page), w.store.user))
    ELSE [w EXCEPT !.page = "login"]

\* the variables after an auth step that leaves the world w
AuthStep(w, op, sess, shown) ==
    /\ net' = w.net
    /\ qc' = w.qc
    /\ lsToken' = w.ls
    /\ store' = w.store
    /\ page' = w.page
    /\ flows' = w.flows
    /\ session' = sess
    /\ event' = IF op = "-" THEN NoEvent ELSE Event(op, "-", "-", w.net \ net)
    /\ toasts' = shown
    /\ obs' = NoObservers
    /\ form' = "closed"
    /\ UNCHANGED <<srv, chain, dir, screen>>

FormShown(p) == page = p /\ ~store.isLoading /\ ~store.isAuthenticated

\* LoginForm.onSubmit -> authStore.login up to its first await
Login ==
    /\ FormShown("login")
    /\ AuthStep(apiLogin([AuthWorld EXCEPT !.store.isLoading = TRUE], "login.post"),
                "login", session, {})
    /\ ops' = ops + 1

\* RegisterForm.onSubmit -> authStore.register up to its first await
Register ==
    /\ FormShown("register")
    /\ AuthStep(apiRequest([AuthWorld EXCEPT !.store.isLoading = TRUE],
                           "register", "register.post", NoToken),
                "register", session, {})
    /\ ops' = ops + 1

\* the link between the two forms
GoTo(p) ==
    /\ p \in PublicPages /\ p # page
    /\ \E q \in PublicPages : FormShown(q)
    /\ AuthStep([AuthWorld EXCEPT !.page = p], "-", session, {})
    /\ ops' = ops

\* Header.handleLogout: authStore.logout, then navigate('/login')
Logout ==
    /\ page \in Pages /\ store.isAuthenticated /\ ~store.isLoading
    /\ AuthStep([AuthWorld EXCEPT !.ls = NoToken, !.store = ClearedStore, !.page = "login"],
                "logout", NoSession, {})
    /\ ops' = ops + 1

\* the browser loads the application at page p: the store and the query cache
\* are created anew, localStorage is kept, requests in flight are abandoned
Reload(p) ==
    /\ LET fresh == [net |-> {}, qc |-> [k \in QueryKeys |-> EmptyQuery], ls |-> lsToken,
                     store |-> InitialStore(lsToken), page |-> p, flows |-> {}]
       IN AuthStep(IF p \in PublicPages THEN fresh ELSE ProtectedRoute(fresh),
                   IF p \in PublicPages THEN "reload" ELSE "reload.protected", session, {})
    /\ ops' = ops + 1

\* the backend answers an auth request 2xx: a token for a login, the user for
\* a registration, the token's user for GET /auth/me with a bearer token
AuthServerOk(r, tok) ==
    /\ r \in net /\ r.phase = "sent"
    /\ r.kind \in AuthKinds
    /\ r.kind = "getCurrentUser" => Len(r.auth) = 2
    /\ net' = (net \ {r}) \cup
         {[r EXCEPT !.phase = "ok",
                    !.resp = [NoResp EXCEPT
                                 !.hasJson = TRUE,
                                 !.token = IF r.kind = "login" THEN tok ELSE NoToken,
                                 !.user = CASE r.kind = "getCurrentUser" -> UserOf(r.auth[2])
                                            [] r.kind = "register" -> PlainUser
                                            [] OTHER -> NoUser]]}
    /\ event' = NoEvent
    /\ toasts' = {}
    /\ UNCHANGED <<srv, qc, page, obs, ops, chain>>
    /\ UNCHANGED <<authVars, form, dir, screen>>

Authenticated(u, tok) ==
    [user |-> u, token |-> tok, isAuthenticated |-> TRUE, isLoading |-> FALSE]

\* a catch that forgets the token in localStorage
loadUserKeepsToken(w, f, r) ==
    IF Resolves(r) THEN [w EXCEPT !.store = Authenticated(r.resp.user, f.token)]
    ELSE [w EXCEPT !.store = ClearedStore]

\* authStore.loadUser from its await to its end: the set of the try block, or
\* the catch block's removeItem and set
loadUserSettled(w, f, r) ==
    IF Resolves(r) THEN [w EXCEPT !.store = Authenticated(r.resp.user, f.token)]
    ELSE [w EXCEPT !.ls = NoToken, !.store = ClearedStore]

\* the world after the await of flow f has settled with response r
AfterAwait(w, f, r) ==
    CASE f.fn = "login.post" /\ Resolves(r) ->
            CalledWith(apiRequest([w EXCEPT !.ls = r.resp.token],
                                  "getCurrentUser", "login.me", r.resp.token),
                       Flow("login.me", FreshRid(w.net), r.resp.token), f.before)
      [] f.fn = "login.me" /\ Resolves(r) ->
            Render([w EXCEPT !.store = Authenticated(r.resp.user, f.token)])
      [] f.fn = "register.post" /\ Resolves(r) -> apiLogin(w, "register.login")
      [] f.fn = "register.login" /\ Resolves(r) ->
            Render([w EXCEPT !.ls = r.resp.token,
                             !.store = Authenticated(PlainUser, r.resp.token)])
      [] f.fn = "loadUser" -> Render(loadUserSettled(w, f, r))
      [] OTHER -> Render([w EXCEPT !.store.isLoading = FALSE])

\* what the latest login returned, as the store has persisted it
SessionAfter(f, r) ==
    CASE f.fn \in {"login.post", "register.login"} /\ Resolves(r) ->
            [token |-> r.resp.token, removed |-> FALSE]
      [] f.fn = "loadUser" /\ ~Resolves(r) -> [session EXCEPT !.removed = TRUE]
      [] OTHER -> session

FormToasts(f, r) ==
    CASE f.fn = "login.me" /\ Resolves(r) -> {Toast("success", "Welcome back!")}
      [] f.fn = "register.login" /\ Resolves(r) -> {Toast("success", "Account created")}
      [] f.fn = "loadUser" -> {}
      [] Resolves(r) -> {}
      [] f.fn \in {"login.post", "login.me"} -> {Toast("error", "Login failed")}
      [] OTHER -> {Toast("error", "Registration failed")}

\* an awaited auth request settles and the store function runs on
AuthSettles(r) ==
    /\ r \in net /\ r.phase # "sent"
    /\ r.kind \in AuthKinds
    /\ \E f \in flows :
          /\ f.rid = r.rid
          /\ AuthStep(AfterAwait([AuthWorld EXCEPT !.net = net \ {r}, !.flows = flows \ {f}], f, r),
                      "-", SessionAfter(f, r), FormToasts(f, r))
    /\ ops' = ops

\* a browser without a stored token opens the login page
InitAuth ==
    /\ lsToken = NoToken
    /\ store = InitialStore(NoToken)
    /\ session = NoSession
    /\ flows = {}
    /\ srv = OneTask
    /\ page = "login"
    /\ net = {}
    /\ qc = [k \in QueryKeys |-> EmptyQuery]
    /\ obs = NoObservers
    /\ toasts = {}
    /\ event = NoEvent
    /\ ops = 0
    /\ chain = [t \in TaskIds |-> NoChain]
    /\ form = "closed"
    /\ dir = OneUser
    /\ screen = NoScreen

NextAuth ==
    \/ ops < MaxAuthOps /\ Login
    \/ ops < MaxAuthOps /\ Register
    \/ ops < MaxAuthOps /\ Logout
    \/ ops < MaxAuthOps /\ \E p \in PublicPages \cup {"dashboard"} : Reload(p)
    \/ \E p \in PublicPages : GoTo(p)
    \/ \E r \in net :
          \/ \E tok \in Tokens : AuthServerOk(r, tok)
          \/ ServerOk(r)
          \/ ServerFail(r)
          \/ AuthSettles(r)
          \/ QuerySettles(r)

SpecAuth == InitAuth /\ [][NextAuth]_vars

\* the browser's Back button on a public page, the history holding the
\* protected page p: ProtectedRoute mounts without a reload, so the calls of
\* the store that are in flight go on. It renders the spinner while the
\* store is loading, and its effect calls loadUser.
HistoryBack(p) ==
    /\ page \in PublicPages
    /\ ~store.isAuthenticated
    /\ LET w == [AuthWorld EXCEPT !.page = p]
           l == loadUser(w)
       IN AuthStep(IF ~store.isLoading THEN ProtectedRoute(w)
                   ELSE IF ~l.store.isLoading THEN [l EXCEPT !.page = "login"]
                   ELSE l,
                   "back", session, {})
    /\ ops' = ops + 1

\* a user who has logged out of the dashboard logs in again
NextHistory ==
    \/ ops < MaxHistoryOps /\ Login
    \/ ops < MaxHistoryOps /\ Register
    \/ ops < MaxHistoryOps /\ Logout
    \/ \E p \in PublicPages : GoTo(p)
    \/ ops < MaxHistoryOps /\ HistoryBack("dashboard")
    \/ \E r \in net :
          \/ \E tok \in Tokens : AuthServerOk(r, tok)
          \/ ServerOk(r)
          \/ ServerFail(r)
          \/ AuthSettles(r)
          \/ QuerySettles(r)

SpecHistory == InitAuth /\ [][NextHistory]_vars

(* ------------------------------ task form ------------------------------ *)
FormInputs ==
    {FormDataOf(title, description) :
        title \in FormTitles \cup LongTitles, description \in FormDescriptions}

NextForm ==
    \/ \E x \in TaskIds \cup {"-"} : OpenForm(x)
    \/ CloseForm
    \/ ops < MaxFormOps /\ \E x \in TaskIds \cup {"-"}, data \in FormInputs :
                              form = x /\ SubmitForm(x, data)
    \/ Network

SpecForm == InitAt("dashboard", OneTask) /\ [][NextForm]_vars

(* ------------------------- the admin panel's guard --------------------- *)
\* an AdminPanel that renders its sections for everybody
AdminPanelOpen(user, section) == section

\* AdminPanel: a user who is not an admin is redirected to / before any
\* section is rendered; an admin gets the active section
AdminPanel(user, section) ==
    IF ~(user.exists /\ user.is_admin) THEN "dashboard" ELSE section

\* the router renders target in place of the current page
ShowPage(op, target) ==
    /\ store.isAuthenticated /\ ~store.isLoading
    /\ page' = target
    /\ LET w == MountQueries(World, EnabledQueries(QueriesOf(target), store.user))
       IN /\ net' = w.net
          /\ qc' = w.qc
          /\ event' = Event(op, "-", "-", w.net \ net)
    /\ obs' = NoObservers
    /\ form' = "closed"
    /\ toasts' = {}
    /\ ops' = ops + 1
    /\ UNCHANGED <<srv, chain>>
    /\ UNCHANGED <<authVars, dir, screen>>

\* the user opens /admin, by the header's link or by its URL: the panel starts
\* in its overview section
OpenAdminPanel ==
    /\ page \in {"dashboard", "kanban"}
    /\ ShowPage("openAdmin", AdminPanel(store.user, "adminOverview"))

\* setActiveSection: the panel renders again with the section chosen
SelectSection(section) ==
    /\ page \in AdminSections /\ section \in AdminSections /\ section # page
    /\ ShowPage("selectSection", AdminPanel(store.user, section))

InitRoles == \E tok \in Tokens : InitAs(UserOf(tok), tok, "dashboard", OneTask)

NextRoles ==
    \/ ops < MaxRoleOps /\ OpenAdminPanel
    \/ ops < MaxRoleOps /\ \E section \in AdminSections : SelectSection(section)
    \/ OpenForm("-")
    \/ ops < MaxRoleOps /\ Logout
    \/ ops < MaxRoleOps /\ Login
    \/ \E r \in net :
          \/ \E tok \in Tokens : AuthServerOk(r, tok)
          \/ ServerOk(r)
          \/ r.kind = "getAllUsers" /\ ServerFail(r)
          \/ AuthSettles(r)
          \/ QuerySettles(r)

SpecRoles == InitRoles /\ [][NextRoles]_vars

(* ------------------- users, profile and AI features -------------------- *)
\* what is typed into the password field: nothing, blanks, a password
Passwords == {"", "   ", "pw"}
\* String.prototype.trim
Trim(text) == IF text = "   " THEN "" ELSE text
\* the message of the Error a rejected call carries
ErrorText == "error.message"

\* the user form is open for a new user or for the user it edits
UserFormTargets == UserIds \cup {"newUser"}
\* the users the user management section lists
ListedUser(u) == qc[KeyUsers].hasData /\ qc[KeyUsers].data[u].exists

\* useForm's data as submitted
UserFormData(password) ==
    [full_name |-> "Cy", email |-> "cy@x", password |-> password, is_admin |-> FALSE]

\* the update payload with the password kept as typed
updateDataKeepsPassword(data) == data

\* onSubmit, editing: the password is deleted from the payload unless one
\* was typed
updateData(data) ==
    IF data.password = "" \/ Trim(data.password) = ""
    THEN [f \in DOMAIN data \ {"password"} |-> data[f]]
    ELSE data

\* the user management section shows a spinner during the first load of the
\* users query (isLoading), and its buttons and list after it
UsersSectionShown == qc[KeyUsers].hasData \/ qc[KeyUsers].fetching = 0

\* "Add User" (setEditingUser(null)) or handleEditUser: the form opens
OpenUserForm(target) ==
    /\ page = "adminUsers"
    /\ UsersSectionShown
    /\ form = "closed"
    /\ target \in UserIds => ListedUser(target)
    /\ form' = target
    /\ event' = NoEvent
    /\ toasts' = {}
    /\ UNCHANGED <<srv, qc, net, page, obs, ops, chain>>
    /\ UNCHANGED <<authVars, dir, screen>>

\* AdminUserForm.onSubmit up to its await: the form edits target or, for
\* "newUser", creates a user; a new user needs a password
SubmitUserForm(target, password) ==
    /\ page = "adminUsers"
    /\ form = target
    /\ LET data == UserFormData(password) IN
       IF target \in UserIds
       THEN /\ Mutate("onSubmitUser", target, password, "updateUser", target,
                      updateData(data), NoObserver)
            /\ toasts' = {}
       ELSE IF data.password = "" \/ Trim(data.password) = ""
       THEN /\ NoRequest("onSubmitUser", target, password)
            /\ toasts' = {Toast("error", "Password is required for new users")}
       ELSE /\ Mutate("onSubmitUser", target, password, "createUser", "-", data, NoObserver)
            /\ toasts' = {}
    /\ UNCHANGED <<srv, qc, page, chain>>
    /\ UNCHANGED <<authVars, form, dir, screen>>

\* DeleteUserModal.handleDelete for a listed user; the list offers the
\* deletion of users who are not admins
HandleDeleteUser(u) ==
    /\ page = "adminUsers"
    /\ ListedUser(u) /\ ~qc[KeyUsers].data[u].is_admin
    /\ Mutate("handleDeleteUser", u, "-", "deleteUser", u, NoBody, NoObserver)
    /\ toasts' = {}
    /\ UNCHANGED <<srv, qc, page, chain>>
    /\ UNCHANGED <<authVars, form, dir, screen>>

\* Profile.onSubmit
SubmitProfile ==
    /\ page = "profile"
    /\ Mutate("onSubmitProfile", "-", "-", "updateProfile", "-", NoBody, NoObserver)
    /\ toasts' = {}
    /\ UNCHANGED <<srv, qc, page, chain>>
    /\ UNCHANGED <<authVars, form, dir, screen>>

\* TaskForm.handleAISuggestion: needs a title
HandleAISuggestion(title) ==
    /\ page \in {"dashboard", "kanban"}
    /\ IF title = ""
       THEN /\ NoRequest("handleAISuggestion", "-", title)
            /\ toasts' = {Toast("error", "Please enter a task title first")}
       ELSE /\ Mutate("handleAISuggestion", "-", title, "suggestTaskDescription", "-",
                      NoBody, NoObserver)
            /\ toasts' = {}
    /\ UNCHANGED <<srv, qc, page, chain>>
    /\ UNCHANGED <<authVars, form, dir, screen>>

\* DailyPlan.handleRefresh: useRefreshDailyPlan passes apiClient.getDailyPlan
\* detached from apiClient, so the call of this.request inside it throws
\* before any request is made; the mutation fails and the hook's onError
\* shows the error's message
HandleRefresh ==
    /\ page = "dailyPlan"
    /\ NoRequest("handleRefresh", "-", "-")
    /\ toasts' = {Toast("error", ErrorText)}
    /\ UNCHANGED <<srv, qc, page, chain>>
    /\ UNCHANGED <<authVars, form, dir, screen>>

\* the id the backend gives the next user
NewUserId ==
    CASE ~dir["u1"].exists -> "u1"
      [] ~dir["u2"].exists -> "u2"
      [] OTHER -> "u3"

\* the backend's user list after a user write
DirAfter(r) ==
    CASE r.kind = "createUser" ->
            [dir EXCEPT ![NewUserId] = Account(r.body.full_name, r.body.is_admin)]
      [] r.kind = "updateUser" ->
            [dir EXCEPT ![r.id] = Account(r.body.full_name, r.body.is_admin)]
      [] r.kind = "deleteUser" -> [dir EXCEPT ![r.id] = NoAccount]
      [] OTHER -> dir

\* the backend answers a user, profile or AI write 2xx; the answer to a
\* DELETE may have no body
AccountServerOk(r, hasJson) ==
    /\ r \in net /\ r.phase = "sent"
    /\ r.kind \in AccountKinds
    /\ ~hasJson => r.kind = "deleteUser"
    /\ r.kind = "createUser" => \E u \in UserIds : ~dir[u].exists
    /\ r.kind \in {"updateUser", "deleteUser"} => dir[r.id].exists
    /\ dir' = DirAfter(r)
    /\ screen' = screen
    /\ net' = (net \ {r}) \cup
         {[r EXCEPT !.phase = "ok",
                    !.resp = [NoResp EXCEPT
                                 !.hasJson = hasJson,
                                 !.user = IF r.kind = "updateProfile" /\ Len(r.auth) = 2
                                          THEN UserOf(r.auth[2]) ELSE NoUser]]}
    /\ event' = NoEvent
    /\ toasts' = {}
    /\ UNCHANGED <<srv, qc, page, obs, ops, chain>>
    /\ UNCHANGED <<authVars, form>>

\* the notifications of the call site that awaited the call
AccountToasts(r) ==
    CASE r.kind = "createUser" ->
            IF Resolves(r) THEN {Toast("success", "User created successfully!")}
            ELSE {Toast("error", ErrorText)}
      [] r.kind = "updateUser" ->
            IF Resolves(r) THEN {Toast("success", "User updated successfully!")}
            ELSE {Toast("error", ErrorText)}
      [] r.kind = "deleteUser" ->
            IF Resolves(r) THEN {Toast("success", "User deleted successfully!")}
            ELSE {Toast("error", ErrorText)}
      [] r.kind = "updateProfile" ->
            IF Resolves(r) THEN {Toast("success", "Profile updated successfully!")}
            ELSE {Toast("error", ErrorText)}
      [] OTHER ->
            \* useSuggestTaskDescription.onError and the catch of handleAISuggestion
            IF Resolves(r) THEN {}
            ELSE {Toast("error", "Failed to generate AI suggestion"),
                  Toast("error", "Failed to generate AI suggestion")}

\* the awaited call settles: the user hooks invalidate ['users'], the user
\* form is reset and closed after a create or update that succeeded, the
\* profile page stores the returned user
AccountSettles(r) ==
    /\ r \in net /\ r.phase # "sent"
    /\ r.kind \in AccountKinds
    /\ LET rest == [World EXCEPT !.net = net \ {r}]
           w == IF Resolves(r) /\ r.kind \in {"createUser", "updateUser", "deleteUser"}
                THEN InvalidateQueries(rest, KeyUsers)
                ELSE rest
       IN /\ net' = w.net
          /\ qc' = w.qc
    /\ store' = IF Resolves(r) /\ r.kind = "updateProfile"
                THEN [store EXCEPT !.user = r.resp.user]
                ELSE store
    /\ toasts' = AccountToasts(r)
    /\ form' = IF Resolves(r) /\ r.kind \in {"createUser", "updateUser"} THEN "closed" ELSE form
    /\ event' = NoEvent
    /\ UNCHANGED <<srv, page, obs, ops, chain, lsToken, session, flows, dir, screen>>

NextNotify ==
    \/ ops < MaxNotifyOps /\ \E t \in TaskIds : HandleStatusChange(t)
    \/ ops < MaxNotifyOps /\ \E t \in TaskIds, over \in TaskStatus \cup TaskIds \cup {NoOver} :
                                HandleDragEnd(t, over)
    \/ ops < MaxNotifyOps /\ \E v \in Views, t \in TaskIds, i \in FewInputValues :
                                HandleAddTime(v, t, i)
    \/ ops < MaxNotifyOps /\ \E x \in TaskIds \cup {"-"}, title \in Titles : SubmitTaskForm(x, title)
    \/ ops < MaxNotifyOps /\ \E t \in TaskIds : HandleConfirmDelete(t)
    \/ \E x \in UserFormTargets : OpenUserForm(x)
    \/ ops < MaxNotifyOps /\ \E x \in UserFormTargets, pw \in Passwords : SubmitUserForm(x, pw)
    \/ ops < MaxNotifyOps /\ \E u \in UserIds : HandleDeleteUser(u)
    \/ ops < MaxNotifyOps /\ SubmitProfile
    \/ ops < MaxNotifyOps /\ \E title \in FormTitles : HandleAISuggestion(title)
    \/ ops < MaxNotifyOps /\ HandleRefresh
    \/ Network
    \/ \E r \in net : \/ \E hasJson \in BOOLEAN : AccountServerOk(r, hasJson)
                      \/ AccountSettles(r)

SpecNotify ==
    /\ \E p \in {"dashboard", "kanban", "adminUsers", "profile", "dailyPlan"} : InitAt(p, OneTask)
    /\ [][NextNotify]_vars

(* --------------------------- user administration ----------------------- *)
\* an admin has opened the admin panel; reads succeed, user writes may fail
NextUsers ==
    \/ ops < MaxUserOps /\ \E section \in AdminSections : SelectSection(section)
    \/ \E x \in UserFormTargets : OpenUserForm(x)
    \/ ops < MaxUserOps /\ \E x \in UserFormTargets, pw \in Passwords : SubmitUserForm(x, pw)
    \/ ops < MaxUserOps /\ \E u \in UserIds : HandleDeleteUser(u)
    \/ \E r \in net :
          \/ ServerOk(r)
          \/ QuerySettles(r)
          \/ \E hasJson \in BOOLEAN : AccountServerOk(r, hasJson)
          \/ r.kind \in AccountKinds /\ ServerFail(r)
          \/ AccountSettles(r)

SpecUsers == InitAs(AdminUser, "tokA", "adminOverview", OneTask) /\ [][NextUsers]_vars

\* the admin stays in the user management section and works with the form
NextUserForm ==
    \/ \E x \in UserFormTargets : OpenUserForm(x)
    \/ ops < MaxUserFormOps /\ \E x \in UserFormTargets, pw \in Passwords : SubmitUserForm(x, pw)
    \/ \E r \in net :
          \/ ServerOk(r)
          \/ QuerySettles(r)
          \/ \E hasJson \in BOOLEAN : AccountServerOk(r, hasJson)
          \/ r.kind \in AccountKinds /\ ServerFail(r)
          \/ AccountSettles(r)

SpecUserForm == InitAs(AdminUser, "tokA", "adminUsers", OneTask) /\ [][NextUserForm]_vars

(* --------------------------- request outcomes -------------------------- *)
\* JavaScript values of the fields of a parsed error body; texts are
\* sequences of words
JsUndefined == [type |-> "undefined", str |-> <<>>]
JsString(s) == [type |-> "string", str |-> s]
\* a list of validation errors; as a string it reads "[object Object]"
JsArray == [type |-> "array", str |-> <<"[object Object]">>]
Truthy(v) == v.type = "array" \/ (v.type = "string" /\ v.str # <<>>)
\* a || b
JsOr(a, b) == IF Truthy(a) THEN a ELSE b
\* new Error(v).message
ErrorMessage(v) == v.str

HttpStatuses == {200, 404, 422, 500}
StatusOk(status) == status \in 200..299
StatusWord(status) ==
    CASE status = 200 -> "200" [] status = 404 -> "404" [] status = 422 -> "422" [] OTHER -> "500"
StatusText(status) ==
    CASE status = 200 -> "OK"
      [] status = 404 -> "Not Found"
      [] status = 422 -> "Unprocessable Entity"
      [] OTHER -> "Internal Server Error"

DetailValues == {JsUndefined, JsString(<<>>), JsString(<<"Task not found">>), JsArray}
MessageValues == {JsUndefined, JsString(<<>>), JsString(<<"Server says no">>)}
\* response bodies: text that is no JSON, the JSON null, a JSON object
Bodies ==
    {[kind |-> k, detail |-> JsUndefined, message |-> JsUndefined] : k \in {"text", "null"}}
    \cup {[kind |-> "object", detail |-> d, message |-> m] : d \in DetailValues, m \in MessageValues}
\* status 0 stands for a fetch that throws (transport failure)
Responses ==
    {[fn |-> f, status |-> st, body |-> b] : f \in {"request", "login"}, st \in HttpStatuses, b \in Bodies}
    \cup {[fn |-> f, status |-> 0, body |-> [kind |-> "text", detail |-> JsUndefined, message |-> JsUndefined]] :
              f \in {"request", "login"}}

\* the message each function starts from
DefaultMessage(fn, status) ==
    IF fn = "login" THEN <<"Invalid email or password">>
    ELSE <<"HTTP", StatusWord(status), StatusText(status)>>

\* errorData.message || errorData.detail || errorMessage
errorMessageMessageFirst(body, default) ==
    IF body.kind # "object" THEN default
    ELSE ErrorMessage(JsOr(JsOr(body.message, body.detail), JsString(default)))

\* errorData.detail || errorData.message || errorMessage, inside the try
\* whose catch keeps the default (JSON.parse throws on text that is no JSON,
\* reading a field of null throws)
errorMessage(body, default) ==
    IF body.kind # "object" THEN default
    ELSE ErrorMessage(JsOr(JsOr(body.detail, body.message), JsString(default)))

Rejected(msg) == [type |-> "rejected", msg |-> msg]
Resolved == [type |-> "resolved", msg |-> <<>>]

\* ApiClient.request / ApiClient.login on a response
Outcome(resp) ==
    IF resp.status = 0 THEN Rejected(<<"Failed to fetch">>)
    ELSE IF ~StatusOk(resp.status)
    THEN Rejected(errorMessage(resp.body, DefaultMessage(resp.fn, resp.status)))
    ELSE IF resp.body.kind = "text" THEN Rejected(<<"Unexpected end of JSON input">>)
    ELSE Resolved

\* a call of request or login is waiting for the response resp
InitOutcomes ==
    /\ lsToken = NoToken
    /\ store = InitialStore(NoToken)
    /\ session = NoSession
    /\ flows = {}
    /\ srv = OneTask
    /\ page = "login"
    /\ net = {}
    /\ qc = [k \in QueryKeys |-> EmptyQuery]
    /\ obs = NoObservers
    /\ toasts = {}
    /\ \E resp \in Responses : event = [NoEvent EXCEPT !.op = "awaiting", !.arg = resp]
    /\ ops = 0
    /\ chain = [t \in TaskIds |-> NoChain]
    /\ form = "closed"
    /\ dir = OneUser
    /\ screen = NoScreen

\* the response arrives and the call settles
ResponseArrives ==
    /\ event.op = "awaiting"
    /\ event' = [event EXCEPT !.op = "settled"]
    /\ toasts' = {Outcome(event.arg)}
    /\ UNCHANGED <<srv, qc, net, page, obs, ops, chain>>
    /\ UNCHANGED <<authVars, form, dir, screen>>

SpecOutcomes == InitOutcomes /\ [][ResponseArrives]_vars

(* --------------------------- rendered durations ------------------------ *)
\* Math.floor(num / den) and Math.round(num / den) of JavaScript for
\* num >= 0, den > 0: round takes halves up
MathFloor(num, den) == num \div den
MathRound(num, den) == (2 * num + den) \div (2 * den)

\* `${hours}h ${minutes}m`
HoursMinutes(hours, minutes) == ToString(hours) \o "h " \o ToString(minutes) \o "m"

\* formatDuration of the task card, the Kanban card and the daily plan
formatDuration(minutes) ==
    LET hours == MathFloor(minutes, 60)
        remainingMinutes == minutes % 60
    IN IF hours > 0 THEN HoursMinutes(hours, remainingMinutes)
       ELSE ToString(remainingMinutes) \o "m"

\* {Math.round(minutes / 60)}h {minutes % 60}m of the admin task list, the
\* analytics total and the admin leaderboard
roundedDuration(minutes) == HoursMinutes(MathRound(minutes, 60), minutes % 60)

FormattedViews == {"taskCard", "kanbanCard", "dailyPlan"}
RoundedViews == {"adminTaskList", "analyticsTotal", "adminLeaderboard"}
DurationViews == FormattedViews \cup RoundedViews

DurationText(view, minutes) ==
    IF view \in FormattedViews THEN formatDuration(minutes) ELSE roundedDuration(minutes)

\* a view is about to render a minute count
InitDurations ==
    /\ lsToken = NoToken
    /\ store = InitialStore(NoToken)
    /\ session = NoSession
    /\ flows = {}
    /\ srv = OneTask
    /\ page = "login"
    /\ net = {}
    /\ qc = [k \in QueryKeys |-> EmptyQuery]
    /\ obs = NoObservers
    /\ toasts = {}
    /\ \E view \in DurationViews, minutes \in 0..MaxMinutes :
          event = [NoEvent EXCEPT !.op = "rendering", !.arg = [view |-> view, minutes |-> minutes]]
    /\ ops = 0
    /\ chain = [t \in TaskIds |-> NoChain]
    /\ form = "closed"
    /\ dir = OneUser
    /\ screen = NoScreen

\* the view renders the duration
ShowDuration ==
    /\ event.op = "rendering"
    /\ event' = [event EXCEPT !.op = "rendered"]
    /\ screen' = [view |-> event.arg.view, text |-> DurationText(event.arg.view, event.arg.minutes)]
    /\ UNCHANGED <<srv, qc, net, page, obs, toasts, ops, chain>>
    /\ UNCHANGED <<authVars, form, dir>>

SpecDurations == InitDurations /\ [][ShowDuration]_vars

(* --------------------------- rendered statistics ----------------------- *)
\* JavaScript numbers a statistic can evaluate to
JsNumber(n) == [type |-> "number", n |-> n]
JsNaN == [type |-> "NaN", n |-> 0]
JsInfinity == [type |-> "Infinity", n |-> 0]
\* Math.round(num / den) for num >= 0, den >= 0: 0 / 0 is NaN, x / 0 is
\* Infinity, and Math.round keeps both
RoundedQuotient(num, den) ==
    IF den > 0 THEN JsNumber(MathRound(num, den))
    ELSE IF num = 0 THEN JsNaN ELSE JsInfinity
\* `${value}${unit}`
NumberText(value) == IF value.type = "number" THEN ToString(value.n) ELSE value.type
StatText(value, unit) == NumberText(value) \o unit

StatViews == {"dashboard", "kanban", "analytics", "adminOverview", "adminAnalytics"}
StatsOf(view) ==
    CASE view = "dashboard" -> {"completionRate", "avgPerTask"}
      [] view = "kanban" -> {"completionRate"}
      [] view = "analytics" -> {"completionRate", "avgPerTask"}
      [] OTHER -> {"completionRate", "avgPerTask", "avgHoursPerUser"}
StatUnit(stat) ==
    CASE stat = "completionRate" -> "%"
      [] stat = "avgPerTask" -> "m"
      [] OTHER -> "h"

\* what a view computes from the lists it has loaded: c.total tasks of which
\* c.done are DONE, c.totalMinutes logged on them, c.users users
taskStats(view, stat, c) ==
    CASE stat = "completionRate" ->
            IF view = "adminAnalytics" THEN RoundedQuotient(100 * c.done, c.total)
            ELSE IF c.total > 0 THEN RoundedQuotient(100 * c.done, c.total) ELSE JsNumber(0)
      [] stat = "avgPerTask" ->
            IF view = "dashboard"
            THEN IF c.totalMinutes > 0 THEN RoundedQuotient(c.totalMinutes, c.total) ELSE JsNumber(0)
            ELSE IF c.total > 0 THEN RoundedQuotient(c.totalMinutes, c.total) ELSE JsNumber(0)
      [] OTHER ->
            IF view = "adminAnalytics" THEN RoundedQuotient(c.totalMinutes, 60 * c.users)
            ELSE IF c.users > 0 THEN RoundedQuotient(c.totalMinutes, 60 * c.users) ELSE JsNumber(0)

\* the lists a view can have loaded: no minutes without a task
StatInputs ==
    {[view |-> view, stat |-> stat, total |-> total, done |-> done,
      totalMinutes |-> totalMinutes, users |-> users] :
        view \in StatViews,
        stat \in {"completionRate", "avgPerTask", "avgHoursPerUser"},
        total \in 0..MaxStatTasks, done \in 0..MaxStatTasks,
        totalMinutes \in {0, 1, 59, 60, MaxMinutes}, users \in 0..MaxStatUsers}

\* a view is about to render a statistic
InitStatistics ==
    /\ lsToken = NoToken
    /\ store = InitialStore(NoToken)
    /\ session = NoSession
    /\ flows = {}
    /\ srv = OneTask
    /\ page = "login"
    /\ net = {}
    /\ qc = [k \in QueryKeys |-> EmptyQuery]
    /\ obs = NoObservers
    /\ toasts = {}
    /\ \E c \in StatInputs :
          /\ c.stat \in StatsOf(c.view)
          /\ c.done <= c.total
          /\ c.total = 0 => c.totalMinutes = 0
          /\ event = [NoEvent EXCEPT !.op = "rendering", !.arg = c]
    /\ ops = 0
    /\ chain = [t \in TaskIds |-> NoChain]
    /\ form = "closed"
    /\ dir = OneUser
    /\ screen = NoScreen

\* the view renders the statistic
ShowStatistic ==
    /\ event.op = "rendering"
    /\ event' = [event EXCEPT !.op = "rendered"]
    /\ screen' = [view |-> event.arg.view,
                  text |-> StatText(taskStats(event.arg.view, event.arg.stat, event.arg),
                                    StatUnit(event.arg.stat))]
    /\ UNCHANGED <<srv, qc, net, page, obs, toasts, ops, chain>>
    /\ UNCHANGED <<authVars, form, dir>>

SpecStatistics == InitStatistics /\ [][ShowStatistic]_vars

(* ------------------------------ properties ----------------------------- *)
Settled == net = {} /\ qc[KeyTasks].hasData /\ ~qc[KeyTasks].isError

DragEnded == event.op = "handleDragEnd"

\* the card was released over its own column (the column itself or a card
\* lying in it) or outside every droppable
ReleasedOnOwnColumnOrOutside ==
    /\ DragEnded
    /\ \/ event.arg = NoOver
       \/ event.arg = event.cached.status
       \/ event.arg \in TaskIds /\ CachedTask(event.arg).status = event.cached.status

\* C1: a drag released over the task's own column, over a card of that column
\* or outside every column issues no status-update request.
C1_NoRequestOnOwnColumn == ReleasedOnOwnColumnOrOutside => event.issued = {}

\* C2: a drag released over the droppable area of another column c issues
\* exactly one status-update request, for the dragged task, with status c,
\* whatever the two statuses are.
C2_CrossColumnDrop ==
    (DragEnded /\ event.arg \in TaskStatus /\ event.arg # event.cached.status)
    => /\ Cardinality(event.issued) = 1
       /\ event.issued \subseteq net
       /\ \A r \in event.issued :
             /\ r.kind = "updateTaskStatus"
             /\ r.id = event.task
             /\ r.body = [status |-> event.arg]

\* a task shown as DONE was dropped on the TODO column and the request is out
C2_Witness ==
    /\ DragEnded
    /\ event.cached.status = "DONE"
    /\ event.arg = "TODO"
    /\ \E r \in net : r.kind = "updateTaskStatus" /\ r.body.status = "TODO" /\ r.id = event.task

StatusCycle == {<<"TODO", "IN_PROGRESS">>, <<"IN_PROGRESS", "DONE">>, <<"DONE", "TODO">>}

AddTimeClicked == event.op = "handleAddTime"
IsNegativeInput(s) == s # <<>> /\ Head(s) = "-"
\* a number whose digits before any exponent are all zero
IsZeroInput(s) ==
    LET u == IF IsNegativeInput(s) THEN Tail(s) ELSE s
        m == IF \E i \in 1..Len(u) : u[i] = "e"
             THEN SubSeq(u, 1, (CHOOSE i \in 1..Len(u) : u[i] = "e") - 1)
             ELSE u
    IN \A i \in 1..Len(m) : m[i] \in {"0", "."}

RejectedInput(s) == s = <<>> \/ ~IsValidFloat(s) \/ IsZeroInput(s) \/ IsNegativeInput(s)

\* C4: add-time issues no request for an empty, non-numeric, zero or negative
\* input, in both cards, and every add-time request in flight carries a
\* positive integer.
C4_AddTimeRejects ==
    /\ (AddTimeClicked /\ RejectedInput(event.arg)) => event.issued = {}
    /\ \A r \in net : r.kind = "addTimeToTask" => r.body.minutes \in Nat \ {0}

\* a text that is no number was typed on the board's card, after a zero on
\* it had been refused, and nothing was sent
C4_Witness ==
    /\ AddTimeClicked
    /\ event.arg = <<"5", "-">>
    /\ page = "kanban"
    /\ ops = 2
    /\ event.issued = {}
    /\ net = {}
    /\ srv["t1"].total_minutes = 0

IsErrorToast(x) == x.type = "error"

HookSuccessMsgs == {"Task created!", "Task updated!", "Moved to Todo", "Started!", "Done!",
                    "Task updated", "+min logged", "Deleted"}
WriteJustSucceeded == \E x \in toasts : x.type = "success" /\ x.msg \in HookSuccessMsgs

\* C6: a successful task write leaves every cached task collection
\* invalidated or refetching: the user's list and the admin reads.
C6_WriteInvalidatesTaskKeys ==
    WriteJustSucceeded =>
        \A k \in TaskCollectionKeys :
            qc[k].hasData => (qc[k].isInvalidated \/ qc[k].fetching # 0)

\* C7: once every request and refetch has completed, the user's cached task
\* collection is the backend's.
C7_CacheReflectsWrites == Settled => qc[KeyTasks].data = srv

\* C8: a submitted minute value m is sent as it is in exactly one request,
\* the backend answers with the total raised by m, and the settled list
\* shows the backend's total.
C8_AddTimeAdds ==
    /\ [](/\ (AddTimeClicked /\ event.issued # {} /\ AllDigits(event.arg))
              => /\ Cardinality(event.issued) = 1
                 /\ \A r \in event.issued :
                       /\ r.kind = "addTimeToTask"
                       /\ r.id = event.task
                       /\ r.body = [minutes |-> DecimalValue(event.arg)]
          /\ Settled => \A t \in TaskIds :
                            CachedTask(t).total_minutes = srv[t].total_minutes)
    /\ [][\A r \in net : \A r2 \in net' :
             (r.kind = "addTimeToTask" /\ r.phase = "sent" /\ r2.rid = r.rid /\ r2.phase = "ok")
             => /\ r2.resp.task.total_minutes = srv[r.id].total_minutes + r.body.minutes
                /\ srv'[r.id].total_minutes = srv[r.id].total_minutes + r.body.minutes]_vars

\* five minutes were added twice and the list shows ten
C8_Witness ==
    /\ Settled
    /\ srv["t1"].total_minutes = 10
    /\ CachedTask("t1").total_minutes = 10

\* C9: a stored task's total_minutes never decreases, add-time requests
\* carry minutes > 0, and create, update and status requests carry no
\* total_minutes field.
C9_TotalNeverDecreases ==
    /\ [](\A r \in net :
             /\ r.kind \in {"createTask", "updateTask", "updateTaskStatus"}
                   => "total_minutes" \notin DOMAIN r.body
             /\ r.kind = "addTimeToTask" => r.body.minutes > 0)
    /\ [][\A t \in TaskIds :
             (srv[t].exists /\ srv'[t].exists)
             => srv'[t].total_minutes >= srv[t].total_minutes]_vars

\* time was logged, then the task was edited, and the total is still there
C9_Witness ==
    /\ srv["t1"].total_minutes = 5
    /\ srv["t1"].title = "B"

\* the Authorization header that names token tok
Bearer(tok) == IF tok # NoToken THEN <<"Bearer", tok>> ELSE <<>>

\* C10 as stated: from a successful login until logout every request of the
\* api client, the login request included, carries Bearer and the token the
\* latest login returned; after logout no request carries the header.
C10_EveryRequestCarriesToken ==
    [][\A r \in net' \ net :
          r.phase = "sent" => r.auth = Bearer(session'.token)]_vars

\* C10: every request built by ApiClient.request (all but POST /auth/login)
\* carries Bearer and the token the latest successful login returned, from
\* the moment the store has persisted it until logout or a failed loadUser
\* removes it; from then until the next login no request carries the header.
C10_RequestCarriesStoredToken ==
    [][\A r \in net' \ net :
          (r.phase = "sent" /\ r.kind # "login")
          => r.auth = IF session'.removed THEN <<>> ELSE Bearer(session'.token)]_vars

\* after a login the dashboard reads the tasks with the token of that login
C10_Witness ==
    /\ session = [token |-> "tokB", removed |-> FALSE]
    /\ page = "dashboard"
    /\ store.isAuthenticated
    /\ \E r \in net : r.kind = "getTasks" /\ r.phase = "sent" /\ r.auth = <<"Bearer", "tokB">>

\* the data a cached query holds, absent or present
Held(q) == [hasData |-> q.hasData, data |-> q.data]

CurrentFetch(n, q) == {x \in n : x.rid = q.fetching /\ x.kind \in QueryKinds}

WrittenBy(r, task) ==
    CASE r.kind = "updateTaskStatus" -> task.status = r.body.status
      [] r.kind = "updateTask" -> task.title = r.body.title
      [] OTHER -> TRUE

\* C13: when writes to the same task race, the backend holds what the write
\* it applied last wrote and answers with it, and once every request and
\* refetch has completed the cached task is the backend's task.
C13_LastWriteWins ==
    /\ [](Settled => \A t \in TaskIds : qc[KeyTasks].data[t] = srv[t])
    /\ [][\A r \in net : \A r2 \in net' :
             (r.kind \in MutationKinds /\ r.phase = "sent" /\ r2.rid = r.rid /\ r2.phase = "ok")
             => /\ WrittenBy(r, srv'[r.id])
                /\ r2.resp.task = srv'[r.id]]_vars

\* two status changes of the same task were both applied before either
\* settled, the one asking for IN_PROGRESS last
C13_Witness ==
    \E a \in net, b \in net :
        /\ a.kind = "updateTaskStatus" /\ b.kind = "updateTaskStatus"
        /\ a.id = "t1" /\ b.id = "t1"
        /\ a.phase = "ok" /\ b.phase = "ok"
        /\ a.body.status = "IN_PROGRESS" /\ b.body.status = "DONE"
        /\ a.resp.task.status = "IN_PROGRESS" /\ b.resp.task.status = "DONE"
        /\ srv["t1"].status = "IN_PROGRESS"

CallSettled == event.op = "settled"
Present(v) == v.type # "undefined"
\* what the settled call was answered with
Answered == event.arg
NonOkAnswer == CallSettled /\ Answered.status # 0 /\ ~StatusOk(Answered.status)
ParsedObject == Answered.body.kind = "object"
Fallback == IF Answered.fn = "login" THEN <<"Invalid email or password">>
            ELSE <<"HTTP", StatusWord(Answered.status), StatusText(Answered.status)>>

\* C14 as stated: on a non-2xx response the call rejects with the body's
\* detail if the body has one, else with its message if it has one, else
\* with the fallback; a transport failure rejects.
C14_RejectsWithDetailIfPresent ==
    /\ NonOkAnswer =>
          toasts = {Rejected(IF ParsedObject /\ Present(Answered.body.detail)
                             THEN Answered.body.detail.str
                             ELSE IF ParsedObject /\ Present(Answered.body.message)
                             THEN Answered.body.message.str
                             ELSE Fallback)}
    /\ (CallSettled /\ Answered.status = 0) => \A x \in toasts : x.type = "rejected"

\* C14: on a non-2xx response request and login never resolve; they reject
\* with the body's detail when it is a non-empty value, else with its message
\* when that is non-empty, else with the fallback ('HTTP <status>:
\* <statusText>' for request, 'Invalid email or password' for login); a
\* transport failure rejects as well.
C14_RejectsWithServerMessage ==
    /\ NonOkAnswer =>
          /\ toasts # {}
          /\ \A x \in toasts :
                /\ x.type = "rejected"
                /\ x.msg = IF ParsedObject /\ Answered.body.detail \notin {JsUndefined, JsString(<<>>)}
                           THEN Answered.body.detail.str
                           ELSE IF ParsedObject /\ Answered.body.message \notin {JsUndefined, JsString(<<>>)}
                           THEN Answered.body.message.str
                           ELSE Fallback
    /\ (CallSettled /\ Answered.status = 0) => (toasts # {} /\ \A x \in toasts : x.type = "rejected")

\* a 404 whose body has no detail but a message has rejected the request
\* with that message
C14_Witness ==
    /\ CallSettled
    /\ Answered.fn = "request"
    /\ Answered.status = 404
    /\ Answered.body = [kind |-> "object", detail |-> JsUndefined,
                        message |-> JsString(<<"Server says no">>)]
    /\ toasts = {Rejected(<<"Server says no">>)}

WriteKinds == MutationKinds \cup AccountKinds
\* the mutations whose failure is handled in this step
FailedNow == {r \in net : r \notin net' /\ r.kind \in WriteKinds /\ r.phase # "sent" /\ ~Resolves(r)}

\* C15: whenever a mutation fails (a task, user, profile or AI write whose
\* request was rejected, or a plan refresh), the step that handles the
\* failure shows at least one error notification.
C15_FailureNotifies ==
    [][/\ FailedNow # {} => \E x \in toasts' : x.type = "error"
       /\ event'.op = "handleRefresh" => \E x \in toasts' : x.type = "error"]_vars

\* a rejected user deletion has just been reported
C15_Witness ==
    /\ page = "adminUsers"
    /\ ops = 1
    /\ event = NoEvent
    /\ toasts = {Toast("error", ErrorText)}
    /\ \A r \in net : r.kind \notin WriteKinds

FormSubmitted == event.op = "onSubmit"
\* the data of the last submission
Submitted == event.arg
TitleEmptyOrTooLong(data) == Length(data.title) = 0 \/ Length(data.title) > 200
DescriptionTooLong(data) == Length(data.description) > 20000

\* C16: a submission of the task form whose title is empty or longer than
\* 200 characters, or whose description is longer than 20000 characters,
\* issues no request and leaves the form open.
C16_InvalidFormBlocked ==
    [][(event'.op = "onSubmit"
        /\ (TitleEmptyOrTooLong(event'.arg) \/ DescriptionTooLong(event'.arg)))
       => /\ net' = net
          /\ event'.issued = {}
          /\ form # "closed"
          /\ form' = form]_vars

\* a new task with a title of 201 characters was submitted: nothing was
\* sent and the form is still open
C16_Witness ==
    /\ FormSubmitted
    /\ Submitted.title = Title201
    /\ Submitted.description = ""
    /\ form = "-"
    /\ \A r \in net : r.kind \notin MutationKinds

\* the handlers that call mutate or mutateAsync on every path
AlwaysMutates == {"handleStatusChange", "handleConfirmDelete", "handleDeleteUser",
                  "onSubmitProfile", "handleRefresh"}
\* a failed request of the kinds ks leaves the network in this step
Fails(r, ks) == r \in net /\ r \notin net' /\ r.kind \in ks /\ r.phase = "fail"
\* a mutation settles in this step (its onSuccess may start fetches afresh)
Invalidating == \E m \in net : m.kind \in WriteKinds /\ m \notin net'
Reissued(r) == \E x \in net' : x.rid = r.rid /\ x.kind = r.kind /\ x.phase = "sent"

\* C17: a fetch sends at most two requests before the query enters its error
\* state (a failed fetch is retried once), and a mutate call sends exactly
\* one request, which is not sent again when it fails.
C17_RetryPolicy ==
    /\ [](\A k \in QueryKeys : qc[k].fetching # 0 => qc[k].failureCount <= 1)
    /\ [][\A r \in net : \A k \in QueryKeys :
             (Fails(r, QueryKinds) /\ qc[k].fetching = r.rid /\ ~Invalidating) =>
                 IF qc[k].failureCount = 0
                 THEN Reissued(r) /\ qc'[k].failureCount = 1 /\ qc'[k].fetching = r.rid
                 ELSE ~Reissued(r) /\ qc'[k].isError /\ qc'[k].fetching = 0]_vars
    /\ [][\A r \in net : Fails(r, WriteKinds) =>
             \A x \in net' \ net : x.kind \notin WriteKinds]_vars
    /\ [][event'.op \in AlwaysMutates => Cardinality(event'.issued) = 1]_vars

\* C18: every status-update request in flight, from the advance button or
\* from a drag released over a column or over a card, carries one of the
\* three statuses.
C18_StatusRequestsCarryStatus ==
    \A r \in net : r.kind = "updateTaskStatus" => r.body.status \in {"TODO", "IN_PROGRESS", "DONE"}

\* C19: with one client and no failed request, a status-update request sent
\* by the advance button asks for the cyclic successor of the status the
\* server stores for the task at that moment.
C19_AdvanceFollowsServer ==
    event.op = "handleStatusChange" =>
        \A r \in event.issued : <<srv[r.id].status, r.body.status>> \in StatusCycle

\* C20: whenever the auth store says isAuthenticated, it holds a user and a
\* token, and localStorage 'access_token' is that token.
C20_AuthenticatedHoldsToken ==
    store.isAuthenticated =>
        /\ store.user # NoUser
        /\ store.token # NoToken
        /\ lsToken = store.token

\* a delete answered 2xx with an empty body is handled in this step
EmptyDeleteSettles(r) ==
    /\ r \in net /\ r \notin net'
    /\ r.kind \in {"deleteTask", "deleteUser"}
    /\ r.phase = "ok" /\ ~r.resp.hasJson

\* C21: a delete answered 2xx with an empty body completes on its success
\* path: a success notification is shown, no error notification, and for a
\* task the mounted task list is invalidated.
C21_EmptyDeleteSucceeds ==
    [][\A r \in net : EmptyDeleteSettles(r) =>
          /\ \E x \in toasts' : x.type = "success"
          /\ \A x \in toasts' : x.type # "error"
          /\ r.kind = "deleteTask" => qc'[KeyTasks].isInvalidated]_vars

\* the flow of a login() call whose awaited request is rejected in this step
LoginRejects(f) ==
    /\ f \in flows /\ f \notin flows' /\ ops' = ops
    /\ f.fn \in {"login.post", "login.me"}
    /\ \E r \in net : r.rid = f.rid /\ r.kind \in AuthKinds /\ r.phase # "sent"
                     /\ ~Resolves(r) /\ r \notin net'

\* C22: when login() rejects, at POST /auth/login or at the following
\* GET /auth/me, the store ends with isLoading false and with
\* isAuthenticated, user and token as they were, and localStorage
\* 'access_token' is what it was when login() was called.
C22_RejectedLoginLeavesNoToken ==
    [][\A f \in flows : LoginRejects(f) =>
          /\ ~store'.isLoading
          /\ store'.isAuthenticated = store.isAuthenticated
          /\ store'.user = store.user
          /\ store'.token = store.token
          /\ lsToken' = f.before]_vars

\* the notifications that say minutes were added to a task
AddTimeSuccessMsgs == {"Added minutes to task", "+min logged"}
AddTimeSucceedsNow == \E r \in net \ net' : r.kind = "addTimeToTask" /\ Resolves(r)

\* C23: a notification saying that minutes were added appears only in the
\* step in which an add-time request has come back successfully; never
\* before the answer and never for a request that failed.
C23_AddTimeSuccessAfterRequest ==
    [][\A x \in toasts' \ toasts :
          (x.type = "success" /\ x.msg \in AddTimeSuccessMsgs) => AddTimeSucceedsNow]_vars

\* the application is loaded at a protected page: ProtectedRoute mounts and
\* its effect calls loadUser
LoadUserCalled == event'.op = "reload.protected"
\* the loadUser call f gets the answer r to its GET /auth/me in this step
LoadUserSettles(f, r) ==
    /\ f \in flows /\ f \notin flows' /\ ops' = ops
    /\ f.fn = "loadUser"
    /\ r \in net /\ r \notin net' /\ r.rid = f.rid /\ r.phase # "sent"
\* the world in which loadUser returns
LoadUserEnd(f, r) ==
    loadUserSettled([AuthWorld EXCEPT !.net = net \ {r}, !.flows = flows \ {f}], f, r)

\* C24: loadUser without a token in localStorage sends nothing and leaves
\* the store unauthenticated and not loading; with a token, a successful
\* GET /auth/me makes the store authenticated with the returned user and
\* that token, a failed one removes the token from localStorage and clears
\* user and token; isLoading is false whenever loadUser returns.
C24_LoadUserOutcomes ==
    [][/\ (LoadUserCalled /\ lsToken = NoToken) =>
              /\ net' = {} /\ flows' = {}
              /\ ~store'.isAuthenticated /\ ~store'.isLoading
       /\ \A f \in flows, r \in net : LoadUserSettles(f, r) =>
              /\ ~LoadUserEnd(f, r).store.isLoading
              /\ Resolves(r) =>
                    /\ store'.isAuthenticated
                    /\ store'.user = r.resp.user
                    /\ store'.token = f.token /\ f.token # NoToken
                    /\ lsToken' = lsToken
              /\ ~Resolves(r) =>
                    /\ lsToken' = NoToken
                    /\ store' = ClearedStore]_vars

\* a loadUser whose GET /auth/me failed has removed the token and cleared the
\* store, and the routes have gone to the login page
C24_Witness ==
    /\ session.removed
    /\ lsToken = NoToken /\ store = ClearedStore
    /\ page = "login"

\* what the routes show: the spinner while loading, else the page's content
ChildrenShown(p) == page = p /\ ~store.isLoading
\* a page's queries are mounted and fetch in this step
PageMounts == \E r \in net' : r.kind \in QueryKinds /\ r.rid \notin {q.rid : q \in net}

\* C25: an application page is shown only while the store is authenticated
\* and not loading (an unauthenticated visitor is sent to /login), and the
\* login and register forms are shown only to an unauthenticated visitor (an
\* authenticated one is sent to /).
C25_RoutesGuardPages ==
    /\ [](\A p \in Pages : ChildrenShown(p) => store.isAuthenticated)
    /\ [](\A p \in PublicPages : ChildrenShown(p) => ~store.isAuthenticated)
    /\ [][PageMounts => (store'.isAuthenticated /\ page' \in Pages)]_vars

\* after a login the dashboard is shown to the authenticated user
C25_Witness ==
    /\ ChildrenShown("dashboard") /\ store.isAuthenticated
    /\ session.token # NoToken /\ qc[KeyTasks].hasData

\* the requests sent in this step, a retry included
IssuedNow == {r \in net' : r.phase = "sent" /\ r \notin net}
AdminReads == {"getAllUsers", "getAllTasks"}

\* C26: a GET /users or GET /admin/tasks is sent only while the user in the
\* store is an admin; for everybody else the users query is disabled and the
\* admin panel redirects to / without mounting a section.
C26_AdminReadsNeedAdmin ==
    [][/\ \A r \in IssuedNow : r.kind \in AdminReads =>
              (store'.user.exists /\ store'.user.is_admin)
       /\ (store'.isAuthenticated /\ ~store'.user.is_admin) => page' \notin AdminSections]_vars

\* an ordinary user has asked for /admin and has opened the task form: they
\* are on the dashboard and no admin read is in flight
C26_Witness ==
    /\ store.isAuthenticated /\ ~store.user.is_admin
    /\ event.op = "openAdmin" /\ page = "dashboard"
    /\ \A r \in net : r.kind \notin AdminReads

\* no request is in flight and no fetch is running
UsersSettled == net = {} /\ \A k \in QueryKeys : qc[k].fetching = 0
\* the user list a view with the query k shows
UsersShown(k) == IsActive(k) /\ qc[k].hasData /\ ~qc[k].isError

\* C27: once the requests that followed a user create, update or delete
\* have completed, every admin view that shows the user list shows the
\* backend's list, not the list from before the write.
C27_UserViewsShowWrites ==
    UsersSettled => \A k \in UserCollectionKeys : UsersShown(k) => qc[k].data = dir

\* the user form has been submitted in this step
UserFormSubmitted == event'.op = "onSubmitUser" /\ ops' = ops + 1
BlankPassword(password) == password \in {"", "   "}
UserFormWrites == {"createUser", "updateUser"}

\* C28: in the admin user form a new user with an empty or blank password
\* is not sent and an error is shown; an edit with an empty or blank
\* password sends one update whose payload has no password field, an edit
\* with a password sends it; the form stays open when it is submitted and
\* is closed by the submission only when its request has succeeded.
C28_UserFormPassword ==
    [][/\ UserFormSubmitted =>
            /\ form' = form
            /\ (event'.task = "newUser" /\ BlankPassword(event'.arg)) =>
                  /\ event'.issued = {} /\ net' = net
                  /\ \E x \in toasts' : x.type = "error"
            /\ (event'.task = "newUser" /\ ~BlankPassword(event'.arg)) =>
                  \E r \in net' \ net :
                      /\ event'.issued = {r} /\ r.kind = "createUser"
                      /\ r.body.password = event'.arg
            /\ event'.task \in UserIds =>
                  \E r \in net' \ net :
                      /\ event'.issued = {r}
                      /\ r.kind = "updateUser" /\ r.id = event'.task
                      /\ IF BlankPassword(event'.arg)
                         THEN "password" \notin DOMAIN r.body
                         ELSE r.body.password = event'.arg
       /\ \A r \in net \ net' :
            (r.kind \in UserFormWrites /\ r.phase # "sent" /\ form \in UserFormTargets) =>
                (form' = "closed" <=> Resolves(r))]_vars

\* an edit submitted with a blank password is on its way without a password
C28_Witness ==
    /\ event.op = "onSubmitUser" /\ event.task \in UserIds /\ event.arg = "   "
    /\ form = event.task
    /\ \E r \in net : r.kind = "updateUser" /\ r.phase = "sent" /\ "password" \notin DOMAIN r.body

DurationShown == event.op = "rendered" /\ screen.view \in DurationViews

\* C29: whenever a view shows a minute count m as "Xh Ym", 60 * X + Y = m
\* and 0 <= Y < 60.
C29_DurationsAddUp ==
    DurationShown =>
        \A X \in 0..MaxMinutes, Y \in 0..MaxMinutes :
            screen.text = HoursMinutes(X, Y) => (60 * X + Y = event.arg.minutes /\ Y < 60)

StatisticShown == event.op = "rendered" /\ screen.view \in StatViews
\* the divisor of the statistic that is shown
StatDivisor == IF event.arg.stat = "avgHoursPerUser" THEN event.arg.users ELSE event.arg.total
\* the largest value a statistic of these inputs can take
MaxStatValue == 100 + MaxMinutes

\* C30: every percentage and average that a view shows is a number; it is
\* 0 when there are no tasks (no users, for the average per user), and a
\* completion rate is between 0 and 100.
C30_StatisticsDefined ==
    StatisticShown =>
        \E n \in 0..MaxStatValue :
            /\ screen.text = ToString(n) \o StatUnit(event.arg.stat)
            /\ StatDivisor = 0 => n = 0
            /\ event.arg.stat = "completionRate" => n <= 100

====
